---- MODULE Spec2Model ----
(***************************************************************************)
(* Model of the staff-geometry pipeline and of the backend of              *)
(* music-scanner:                                                          *)
(*   src/src/layout/staff_rectifier.py   tracing, reference, rectification *)
(*   src/src/layout/staff_detection.py   staff regions and their grouping  *)
(*   src/src/layout/detect_headers.py    page margins and header regions   *)
(*   src/src/preprocess/normalize.py     DPI, binarisation, the pipeline   *)
(*   src/backend/app/services/omr.py     run_omr and the stored results    *)
(*   src/backend/app/api/routes/omr.py   the upload and download handlers  *)
(*   src/backend/app/api/__init__.py     the routers of the application    *)
(*                                                                         *)
(* Numbers that the code holds in floating point are modelled as exact     *)
(* rationals <<n, d>> in lowest terms with d > 0; <<0, 0>> is NaN.         *)
(* Rounding of float32/float64 arithmetic is not modelled.                 *)
(*                                                                         *)
(* A mask is a function from column index to the set of its foreground     *)
(* rows (the pixels with mask > 0); rows and columns count from 0.         *)
(*                                                                         *)
(* rectify_staff_region and rectify_staff_region_with_mask run the same    *)
(* steps up to the map; the image is taken to have the height of the mask. *)
(* The OpenCV calls (cvtColor, remap) are outside the model, and every     *)
(* mask and matrix is 2-D, so the ndim checks never fail here.             *)
(***************************************************************************)
EXTENDS Integers, Sequences, FiniteSets, TLC

VARIABLES
    call,               \* the public function that was called
    pc,                 \* position inside the call
    err,                \* "" or the failure raised by the call
    height,             \* mask.shape[0], also the height of the image
    mask,               \* argument mask, as column -> set of foreground rows
    expected_lines,     \* argument expected_lines
    smoothing_window,   \* argument smoothing_window, drawn where line 103 reads it
    centers_by_column,  \* local of compute_staff_line_paths
    x,                  \* column index of the scan loop
    previous,           \* local "previous"; <<>> stands for None
    line_paths,         \* the (expected_lines x width) matrix, row -> column -> value
    reference,          \* StaffReference built by compute_staff_reference
    map_x,              \* rectification map, row -> column -> source column
    map_y,              \* rectification map, row -> column -> source row
    regions,            \* argument regions of group_staff_regions
    max_vertical_gap,   \* argument max_vertical_gap
    systems,            \* result of group_staff_regions
    buffers,            \* the arrays in memory, buffer id -> [shape, data]
    image,              \* argument image, as the id of its buffer
    args,               \* the other arguments of the call, by name
    locals,             \* locals of the call (and of its caller) by name
    result,             \* the value the call returned
    settings,           \* app.core.settings of the backend
    files               \* the file system, path -> content

vars == <<call, pc, err, height, mask, expected_lines, smoothing_window,
          centers_by_column, x, previous, line_paths, reference,
          map_x, map_y, regions, max_vertical_gap, systems,
          buffers, image, args, locals, result, settings, files>>

traceVars == <<height, mask, expected_lines, smoothing_window, centers_by_column,
               x, previous>>
rectVars == <<reference, map_x, map_y>>
groupVars == <<regions, max_vertical_gap, systems>>
staffVars == <<traceVars, line_paths, rectVars, groupVars>>
pageVars == <<buffers, image, args, locals, result>>
omrVars == <<settings, files>>

----------------------------------------------------------------------------
(* Bounds of the model.                                                    *)

MaxHeight == 4        \* height of the arbitrary masks
MaxRuledHeight == 7   \* height of the masks made of full horizontal lines
MaxWidth == 2         \* width of every mask and matrix
MaxLines == 2         \* largest expected_lines
MaxWindow == 3        \* largest smoothing_window
MaxRows == 3          \* most rows of a matrix passed to compute_staff_reference
MaxRegions == 3       \* most regions passed to group_staff_regions
MaxCoord == 2         \* largest top or bottom of a region
MaxGap == 1           \* largest max_vertical_gap

Cols == 0 .. MaxWidth - 1

\* Entries of the matrices passed directly to compute_staff_reference.
PathValues == {0, 1, 3}

\* StaffRegion, reduced to the fields group_staff_regions reads.
Regions == [top : 0 .. MaxCoord, bottom : 0 .. MaxCoord]

----------------------------------------------------------------------------
(* Exact rational arithmetic standing for the code's float arithmetic.     *)

RECURSIVE Gcd(_, _)
Gcd(a, b) == IF b = 0 THEN a ELSE Gcd(b, a % b)

Abs(i) == IF i < 0 THEN -i ELSE i

NaN == <<0, 0>>
IsNaN(r) == r[2] = 0

Rat(n, d) ==
    IF d = 0 THEN NaN
    ELSE LET g == Gcd(Abs(n), Abs(d))
             s == IF d < 0 THEN -1 ELSE 1
         IN  <<(s * n) \div g, (s * d) \div g>>

RInt(i) == <<i, 1>>
RAdd(a, b) == Rat(a[1] * b[2] + b[1] * a[2], a[2] * b[2])
RSub(a, b) == Rat(a[1] * b[2] - b[1] * a[2], a[2] * b[2])
RMul(a, b) == Rat(a[1] * b[1], a[2] * b[2])
RDiv(a, b) == Rat(a[1] * b[2], a[2] * b[1])
RLt(a, b) == a[2] # 0 /\ b[2] # 0 /\ a[1] * b[2] < b[1] * a[2]
RLe(a, b) == a[2] # 0 /\ b[2] # 0 /\ a[1] * b[2] <= b[1] * a[2]
RAbs(a) == <<Abs(a[1]), a[2]>>
RMax(a, b) == IF RLt(a, b) THEN b ELSE a
RMin(a, b) == IF RLt(b, a) THEN b ELSE a

----------------------------------------------------------------------------
(* Generic list helpers standing for Python built-ins.                     *)

\* sorted(combo): ascending insertion sort of a list of integers.
RECURSIVE InsertInt(_, _)
InsertInt(e, s) ==
    IF s = <<>> THEN <<e>>
    ELSE IF e < Head(s) THEN <<e>> \o s
    ELSE <<Head(s)>> \o InsertInt(e, Tail(s))

RECURSIVE SortedInts(_)
SortedInts(s) ==
    IF s = <<>> THEN <<>>
    ELSE InsertInt(s[Len(s)], SortedInts(SubSeq(s, 1, Len(s) - 1)))

\* itertools.combinations(s, k), in its enumeration order.
RECURSIVE Combinations(_, _)
Combinations(s, k) ==
    IF k = 0 THEN << <<>> >>
    ELSE IF Len(s) < k THEN <<>>
    ELSE LET withHead == Combinations(Tail(s), k - 1)
         IN  [i \in 1 .. Len(withHead) |-> <<Head(s)>> \o withHead[i]]
             \o Combinations(Tail(s), k)

----------------------------------------------------------------------------
(* _extract_column_centers                                                 *)

\* np.flatnonzero(column): the foreground rows in ascending order.
RECURSIVE FlatNonzero(_, _, _)
FlatNonzero(column, y, h) ==
    IF y >= h THEN <<>>
    ELSE (IF y \in column THEN <<y>> ELSE <<>>) \o FlatNonzero(column, y + 1, h)

\* The loop over ys[1:], from position i with the run (start, prev) open.
RECURSIVE Segments(_, _, _, _)
Segments(ys, i, start, prev) ==
    IF i > Len(ys) THEN << <<start, prev>> >>
    ELSE IF ys[i] # prev + 1
         THEN << <<start, prev>> >> \o Segments(ys, i + 1, ys[i], ys[i])
         ELSE Segments(ys, i + 1, start, ys[i])

\* int(round((s + e) / 2)): Python rounds a half to the even neighbour.
RoundHalf(sum) ==
    IF sum % 2 = 0 THEN sum \div 2
    ELSE LET lo == sum \div 2
         IN  IF lo % 2 = 0 THEN lo ELSE lo + 1

_extract_column_centers(column, h) ==
    LET ys == FlatNonzero(column, 0, h)
    IN  IF ys = <<>> THEN <<>>
        ELSE LET segments == Segments(ys, 2, ys[1], ys[1])
             IN  [i \in 1 .. Len(segments) |->
                     RoundHalf(segments[i][1] + segments[i][2])]

----------------------------------------------------------------------------
(* compute_staff_line_paths                                                *)

\* sum((sorted_combo[i] - previous[i]) ** 2 for i in range(expected_lines))
RECURSIVE SquaredCost(_, _, _)
SquaredCost(combo, prev, i) ==
    IF i > Len(combo) THEN 0
    ELSE (combo[i] - prev[i]) * (combo[i] - prev[i])
         + SquaredCost(combo, prev, i + 1)

ComboCost(combo, prev) ==
    IF prev # <<>> THEN SquaredCost(combo, prev, 1) ELSE 0

\* A faulty comparison that lets a later combination of equal cost win.
ImprovesOrTies(cost, best) == best = <<>> \/ cost <= best[2]

\* "best_cost is None or cost < best_cost"
Improves(cost, best) == best = <<>> \/ cost < best[2]

\* The loop over combinations: best is <<>> (None) or <<best_combo, best_cost>>.
RECURSIVE BestCombo(_, _, _, _)
BestCombo(combos, i, prev, best) ==
    IF i > Len(combos) THEN best
    ELSE LET sorted_combo == SortedInts(combos[i])
             cost == ComboCost(sorted_combo, prev)
         IN  BestCombo(combos, i + 1, prev,
                       IF Improves(cost, best) THEN <<sorted_combo, cost>>
                       ELSE best)

SelectLines(centers, k, prev) ==
    BestCombo(Combinations(centers, k), 1, prev, <<>>)[1]

\* A faulty column write that stores the first value in every row.
SetColumnFirst(paths, col, values) ==
    [i \in DOMAIN paths |-> [paths[i] EXCEPT ![col] = RInt(values[1])]]

\* line_paths[:, col] = values
SetColumn(paths, col, values) ==
    [i \in DOMAIN paths |-> [paths[i] EXCEPT ![col] = RInt(values[i])]]

\* A faulty matrix that starts at 0 instead of NaN.
EmptyPathsZero(k) == [i \in 1 .. k |-> [c \in Cols |-> RInt(0)]]

\* np.full((expected_lines, width), np.nan)
EmptyPaths(k) == [i \in 1 .. k |-> [c \in Cols |-> NaN]]

\* A faulty scan that skips every column with too few candidates.
ScanStepNoPropagation(paths, prev, col, centers, k) ==
    IF Len(centers) >= k
    THEN LET best_combo == SelectLines(centers, k, prev)
         IN  <<SetColumn(paths, col, best_combo), best_combo>>
    ELSE <<paths, prev>>

\* One iteration of "for x, centers in enumerate(centers_by_column)":
\* the new <<line_paths, previous>>.
ScanStep(paths, prev, col, centers, k) ==
    IF Len(centers) >= k
    THEN LET best_combo == SelectLines(centers, k, prev)
         IN  <<SetColumn(paths, col, best_combo), best_combo>>
    ELSE IF prev # <<>>
    THEN <<SetColumn(paths, col, prev), prev>>
    ELSE <<paths, prev>>

\* np.interp(xq, valid_x, valid_y) for ascending valid_x (lists of equal length >= 1).
RECURSIVE InterpFrom(_, _, _, _)
InterpFrom(xq, valid_x, valid_y, j) ==
    IF xq < valid_x[j + 1]
    THEN RAdd(valid_y[j],
              RMul(Rat(xq - valid_x[j], valid_x[j + 1] - valid_x[j]),
                   RSub(valid_y[j + 1], valid_y[j])))
    ELSE InterpFrom(xq, valid_x, valid_y, j + 1)

Interp(xq, valid_x, valid_y) ==
    IF xq <= valid_x[1] THEN valid_y[1]
    ELSE IF xq >= valid_x[Len(valid_x)] THEN valid_y[Len(valid_y)]
    ELSE InterpFrom(xq, valid_x, valid_y, 1)

\* np.where(column_mask)[0] for column_mask = ~np.isnan(row), from column c on.
RECURSIVE ValidX(_, _)
ValidX(row, c) ==
    IF c >= MaxWidth THEN <<>>
    ELSE (IF IsNaN(row[c]) THEN <<>> ELSE <<c>>) \o ValidX(row, c + 1)

\* A faulty gap filling that leaves the undefined columns undefined.
FillRowSkipped(row) == row

\* Lines 96-101 for one row whose column_mask is not empty.
FillRow(row) ==
    LET valid_x == ValidX(row, 0)
        valid_y == [j \in 1 .. Len(valid_x) |-> row[valid_x[j]]]
    IN  [c \in Cols |-> Interp(c, valid_x, valid_y)]

\* window = int(max(1, window - (window % 2 == 0)))
OddWindow(window) ==
    LET w == IF window % 2 = 0 THEN window - 1 ELSE window
    IN  IF w < 1 THEN 1 ELSE w

\* np.pad(curve, (radius, radius), mode="edge")[j], j counted from 0
Padded(curve, radius, j) ==
    LET c == j - radius
    IN  curve[IF c < 0 THEN 0 ELSE IF c > MaxWidth - 1 THEN MaxWidth - 1 ELSE c]

RECURSIVE WindowSum(_, _, _, _, _)
WindowSum(curve, radius, first, k, window) ==
    IF k >= window THEN RInt(0)
    ELSE RAdd(RMul(Padded(curve, radius, first + k), Rat(1, window)),
              WindowSum(curve, radius, first, k + 1, window))

\* _smooth_curve
_smooth_curve(curve, window) ==
    IF window <= 1 THEN curve
    ELSE LET w == OddWindow(window)
             radius == w \div 2
         IN  [c \in Cols |-> WindowSum(curve, radius, c, 0, w)]

\* Lines 103-105
SmoothPaths(paths, window) ==
    IF window > 1
    THEN [i \in DOMAIN paths |-> _smooth_curve(paths[i], window)]
    ELSE paths

\* A faulty emptiness test that looks at the first column only.
HasForegroundFirstColumn(m) == m[0] # {}

\* np.any(binary)
HasForeground(m) == \E c \in Cols : m[c] # {}

----------------------------------------------------------------------------
(* compute_staff_reference                                                 *)

RECURSIVE InsertRat(_, _)
InsertRat(e, s) ==
    IF s = <<>> THEN <<e>>
    ELSE IF RLt(e, Head(s)) THEN <<e>> \o s
    ELSE <<Head(s)>> \o InsertRat(e, Tail(s))

RECURSIVE SortedRats(_)
SortedRats(s) ==
    IF s = <<>> THEN <<>>
    ELSE InsertRat(s[Len(s)], SortedRats(SubSeq(s, 1, Len(s) - 1)))

\* A faulty median that takes the upper middle value of an even count.
MedianUpper(s) == SortedRats(s)[Len(s) \div 2 + 1]

\* np.median: the middle of the sorted values, or the mean of the two middle
\* ones; NaN for an empty list.
Median(s) ==
    LET sorted == SortedRats(s)
        n == Len(s)
    IN  IF n = 0 THEN NaN
        ELSE IF n % 2 = 1 THEN sorted[(n + 1) \div 2]
        ELSE RMul(RAdd(sorted[n \div 2], sorted[n \div 2 + 1]), Rat(1, 2))

\* A row of a matrix (a function on 0 .. w-1) as a list.
RowList(row) ==
    LET w == Cardinality(DOMAIN row)
    IN  [j \in 1 .. w |-> row[j - 1]]

\* Faulty gaps that keep their sign.
GapListSigned(paths, idx) ==
    LET w == Cardinality(DOMAIN paths[idx])
    IN  [j \in 1 .. w |-> RSub(paths[idx + 1][j - 1], paths[idx][j - 1])]

\* np.abs(line_paths[idx + 1] - line_paths[idx]) as a list
GapList(paths, idx) ==
    LET w == Cardinality(DOMAIN paths[idx])
    IN  [j \in 1 .. w |-> RAbs(RSub(paths[idx + 1][j - 1], paths[idx][j - 1]))]

\* The loop extending spacing_samples, from row idx on.
RECURSIVE SpacingSamples(_, _)
SpacingSamples(paths, idx) ==
    IF idx > Len(paths) - 1 THEN <<>>
    ELSE GapList(paths, idx) \o SpacingSamples(paths, idx + 1)

\* A faulty size test that lets a single row through.
TooFewLinesOffByOne(paths) == Len(paths) < 1

\* "if line_paths.shape[0] < 2"
TooFewLines(paths) == Len(paths) < 2

NoReference == [canonical_positions |-> <<>>, line_spacing |-> NaN]

\* Lines 124-131, for a matrix of at least two rows.
StaffReference(paths) ==
    LET line_spacing == Median(SpacingSamples(paths, 1))
        first_line == Median(RowList(paths[1]))
    IN  [canonical_positions |->
             [i \in 1 .. Len(paths) |->
                 RAdd(first_line, RMul(RInt(i - 1), line_spacing))],
         line_spacing |-> line_spacing]

----------------------------------------------------------------------------
(* _build_rectification_map                                                *)

\* Faulty extensions lying two spacings beyond the outer lines.
ExtendedReferenceDouble(ref) ==
    LET c == ref.canonical_positions
        twice == RMul(RInt(2), ref.line_spacing)
    IN  <<RSub(c[1], twice)>> \o c \o <<RAdd(c[Len(c)], twice)>>

\* Lines 144-150
ExtendedReference(ref) ==
    LET c == ref.canonical_positions
    IN  <<RSub(c[1], ref.line_spacing)>> \o c
        \o <<RAdd(c[Len(c)], ref.line_spacing)>>

\* Faulty brackets whose outer ends are the outer lines themselves.
ExtendedPositionsNoMargin(paths, ref, col, h) ==
    LET n == Len(paths)
    IN  <<paths[1][col]>> \o [i \in 1 .. n |-> paths[i][col]] \o <<paths[n][col]>>

ExtendedPositions(paths, ref, col, h) ==
    LET n == Len(paths)
    IN  <<RMax(RInt(0), RSub(paths[1][col], ref.line_spacing))>>
        \o [i \in 1 .. n |-> paths[i][col]]
        \o <<RMin(RInt(h - 1), RAdd(paths[n][col], ref.line_spacing))>>

\* np.searchsorted(a, y, side="right") for ascending a
SearchSortedRight(a, y) == Cardinality({j \in 1 .. Len(a) : RLe(a[j], y)})

\* np.clip(idx, lo, hi)
Clip(idx, lo, hi) == IF idx < lo THEN lo ELSE IF idx > hi THEN hi ELSE idx

\* A faulty entry that scales the ratio by the canonical bracket instead of
\* the traced one.
MapEntryUnscaled(extended_reference, extended_positions, y) ==
    LET idx == Clip(SearchSortedRight(extended_reference, RInt(y)) - 1,
                    0, Len(extended_reference) - 2)
        dst_start == extended_reference[idx + 1]
        dst_end == extended_reference[idx + 2]
        src_start == extended_positions[idx + 1]
    IN  IF dst_end = dst_start THEN src_start
        ELSE LET ratio == RDiv(RSub(RInt(y), dst_start), RSub(dst_end, dst_start))
             IN  RAdd(src_start, RMul(ratio, RSub(dst_end, dst_start)))

\* The body of "for y in range(height)": map_y[y, x].  Lists count from 1
\* here and from 0 in the code, so bracket idx is the pair (idx+1, idx+2).
MapEntry(extended_reference, extended_positions, y) ==
    LET idx == Clip(SearchSortedRight(extended_reference, RInt(y)) - 1,
                    0, Len(extended_reference) - 2)
        dst_start == extended_reference[idx + 1]
        dst_end == extended_reference[idx + 2]
        src_start == extended_positions[idx + 1]
        src_end == extended_positions[idx + 2]
    IN  IF dst_end = dst_start THEN src_start
        ELSE LET ratio == RDiv(RSub(RInt(y), dst_start), RSub(dst_end, dst_start))
             IN  RAdd(src_start, RMul(ratio, RSub(src_end, src_start)))

BuildMapY(paths, ref, h) ==
    [y \in 0 .. h - 1 |->
        [c \in Cols |->
            MapEntry(ExtendedReference(ref),
                     ExtendedPositions(paths, ref, c, h), y)]]

\* np.tile(np.arange(width), (height, 1))
BuildMapX(h) == [y \in 0 .. h - 1 |-> [c \in Cols |-> c]]

----------------------------------------------------------------------------
(* group_staff_regions                                                     *)

\* sorted(regions, key=lambda region: region.top): stable.
RECURSIVE InsertByTop(_, _)
InsertByTop(e, s) ==
    IF s = <<>> THEN <<e>>
    ELSE IF e.top < Head(s).top THEN <<e>> \o s
    ELSE <<Head(s)>> \o InsertByTop(e, Tail(s))

\* A faulty sort that keeps the input order.
InInputOrder(s) == s

RECURSIVE SortedByTop(_)
SortedByTop(s) ==
    IF s = <<>> THEN <<>>
    ELSE InsertByTop(s[Len(s)], SortedByTop(SubSeq(s, 1, Len(s) - 1)))

\* A faulty test that splits regions exactly max_vertical_gap apart.
JoinsSystemStrict(region, prev_region, max_gap) ==
    region.top - prev_region.bottom < max_gap

\* "if gap <= max_vertical_gap"
JoinsSystem(region, prev_region, max_gap) ==
    region.top - prev_region.bottom <= max_gap

\* The loop over sorted_regions[1:], from position i, with the systems so far.
RECURSIVE GroupLoop(_, _, _, _)
GroupLoop(sorted_regions, i, sys, max_gap) ==
    IF i > Len(sorted_regions) THEN sys
    ELSE LET region == sorted_regions[i]
             last_system == sys[Len(sys)]
             prev_region == last_system[Len(last_system)]
         IN  GroupLoop(sorted_regions, i + 1,
                 IF JoinsSystem(region, prev_region, max_gap)
                 THEN [sys EXCEPT ![Len(sys)] = Append(last_system, region)]
                 ELSE Append(sys, <<region>>),
                 max_gap)

group_staff_regions(regs, max_gap) ==
    IF regs = <<>> THEN <<>>
    ELSE LET sorted_regions == SortedByTop(regs)
         IN  GroupLoop(sorted_regions, 2, << <<sorted_regions[1]>> >>, max_gap)

----------------------------------------------------------------------------
(* The calls.  Each public function is an entry point with its own         *)
(* specification; pc is the position inside the call.                      *)

NoTrace ==
    /\ height = 0
    /\ mask = [c \in Cols |-> {}]
    /\ expected_lines = 0
    /\ smoothing_window = 0
    /\ centers_by_column = <<>>
    /\ x = 0
    /\ previous = <<>>

NoRect ==
    /\ reference = NoReference
    /\ map_x = <<>>
    /\ map_y = <<>>

NoGroup ==
    /\ regions = <<>>
    /\ max_vertical_gap = 0
    /\ systems = <<>>

NoPage ==
    /\ buffers = <<>>
    /\ image = 0
    /\ args = <<>>
    /\ locals = <<>>
    /\ result = <<>>

NoOmr ==
    /\ settings = <<>>
    /\ files = <<>>

\* rectify_staff_region(image, mask, expected_lines=..., smoothing_window=...)
\* on an image of the mask's height.
InitRectify ==
    /\ call = "rectify_staff_region"
    /\ pc = "start"
    /\ err = ""
    /\ \/ /\ height = MaxHeight
          /\ mask \in [Cols -> SUBSET (0 .. MaxHeight - 1)]
       \/ /\ height = MaxRuledHeight
          /\ \E ruled \in SUBSET (0 .. MaxRuledHeight - 1) :
                 mask = [c \in Cols |-> ruled]
    /\ expected_lines \in 0 .. MaxLines
    /\ smoothing_window = 0
    /\ centers_by_column = <<>>
    /\ x = 0
    /\ previous = <<>>
    /\ line_paths = <<>>
    /\ NoRect
    /\ NoGroup
    /\ NoPage
    /\ NoOmr

\* Lines 53-69 of compute_staff_line_paths.
TraceBegin ==
    /\ pc = "start"
    /\ call = "rectify_staff_region"
    /\ IF ~HasForeground(mask)
       THEN /\ pc' = "failed"
            /\ err' = "MaskEmpty"
            /\ UNCHANGED <<centers_by_column, line_paths>>
       ELSE IF expected_lines <= 0
       THEN /\ pc' = "failed"
            /\ err' = "InvalidExpectedLines"
            /\ UNCHANGED <<centers_by_column, line_paths>>
       ELSE LET centers == [c \in Cols |-> _extract_column_centers(mask[c], height)]
            IN  IF \A c \in Cols : centers[c] = <<>>
                THEN /\ pc' = "failed"
                     /\ err' = "MaskEmpty"
                     /\ UNCHANGED <<centers_by_column, line_paths>>
                ELSE /\ pc' = "scan"
                     /\ err' = err
                     /\ centers_by_column' = centers
                     /\ line_paths' = EmptyPaths(expected_lines)
    /\ UNCHANGED <<call, height, mask, expected_lines, smoothing_window, x, previous>>
    /\ UNCHANGED <<rectVars, groupVars>>
    /\ UNCHANGED <<pageVars, omrVars>>

\* Lines 71-90: one column of the scan.
ScanColumn ==
    /\ pc = "scan"
    /\ x < MaxWidth
    /\ LET step == ScanStep(line_paths, previous, x, centers_by_column[x],
                            expected_lines)
       IN  /\ line_paths' = step[1]
           /\ previous' = step[2]
    /\ x' = x + 1
    /\ UNCHANGED <<call, pc, err, height, mask, expected_lines, smoothing_window,
                   centers_by_column>>
    /\ UNCHANGED <<rectVars, groupVars>>
    /\ UNCHANGED <<pageVars, omrVars>>

\* Lines 92-101: the anchor check and the gap filling.
FillGaps ==
    /\ pc = "scan"
    /\ x = MaxWidth
    /\ IF previous = <<>>
       THEN /\ pc' = "failed"
            /\ err' = "InsufficientStaffLines"
            /\ UNCHANGED line_paths
       ELSE IF \E i \in DOMAIN line_paths : \A c \in Cols : IsNaN(line_paths[i][c])
       THEN /\ pc' = "failed"
            /\ err' = "UnableToTrace"
            /\ UNCHANGED line_paths
       ELSE /\ pc' = "filled"
            /\ err' = err
            /\ line_paths' = [i \in DOMAIN line_paths |-> FillRow(line_paths[i])]
    /\ UNCHANGED <<call, traceVars, rectVars, groupVars>>
    /\ UNCHANGED <<pageVars, omrVars>>

\* Lines 103-107: smoothing, and the return of compute_staff_line_paths.
SmoothRows ==
    /\ pc = "filled"
    /\ \E window \in 0 .. MaxWindow :
           /\ smoothing_window' = window
           /\ line_paths' = SmoothPaths(line_paths, window)
    /\ pc' = "traced"
    /\ UNCHANGED <<call, err, height, mask, expected_lines, centers_by_column, x,
                   previous>>
    /\ UNCHANGED <<rectVars, groupVars>>
    /\ UNCHANGED <<pageVars, omrVars>>

\* compute_staff_reference, lines 118-131 (the matrix is always 2-D here).
ComputeStaffReference ==
    /\ pc = "traced"
    /\ IF TooFewLines(line_paths)
       THEN /\ pc' = "failed"
            /\ err' = "InvalidInput"
            /\ UNCHANGED reference
       ELSE /\ pc' = "referenced"
            /\ err' = err
            /\ reference' = StaffReference(line_paths)
    /\ UNCHANGED <<call, traceVars, line_paths, map_x, map_y, groupVars>>
    /\ UNCHANGED <<pageVars, omrVars>>

\* _build_rectification_map with height = gray.shape[0], lines 134-173.
BuildRectificationMap ==
    /\ pc = "referenced"
    /\ call = "rectify_staff_region"
    /\ call' = call
    /\ map_x' = BuildMapX(height)
    /\ map_y' = BuildMapY(line_paths, reference, height)
    /\ pc' = "mapped"
    /\ UNCHANGED <<err, traceVars, line_paths, reference, groupVars>>
    /\ UNCHANGED <<pageVars, omrVars>>

NextRectify ==
    \/ TraceBegin
    \/ ScanColumn
    \/ FillGaps
    \/ SmoothRows
    \/ ComputeStaffReference
    \/ BuildRectificationMap

SpecRectify == InitRectify /\ [][NextRectify]_vars

\* compute_staff_reference(line_paths) called on its own, on any 2-D matrix.
InitReference ==
    /\ call = "compute_staff_reference"
    /\ pc = "traced"
    /\ err = ""
    /\ NoTrace
    /\ \E r \in 0 .. MaxRows :
           line_paths \in [1 .. r -> [Cols -> {RInt(v) : v \in PathValues}]]
    /\ NoRect
    /\ NoGroup
    /\ NoPage
    /\ NoOmr

NextReference == ComputeStaffReference

SpecReference == InitReference /\ [][NextReference]_vars

\* group_staff_regions(regions, max_vertical_gap=...)
InitGroup ==
    /\ call = "group_staff_regions"
    /\ pc = "start"
    /\ err = ""
    /\ NoTrace
    /\ line_paths = <<>>
    /\ NoRect
    /\ \E n \in 0 .. MaxRegions : regions \in [1 .. n -> Regions]
    /\ max_vertical_gap \in -1 .. MaxGap
    /\ systems = <<>>
    /\ NoPage
    /\ NoOmr

\* Lines 96-111, the whole call.
GroupRegions ==
    /\ pc = "start"
    /\ call = "group_staff_regions"
    /\ systems' = group_staff_regions(regions, max_vertical_gap)
    /\ pc' = "returned"
    /\ UNCHANGED <<call, err, traceVars, line_paths, rectVars, regions,
                   max_vertical_gap>>
    /\ UNCHANGED <<pageVars, omrVars>>

NextGroup == GroupRegions

SpecGroup == InitGroup /\ [][NextGroup]_vars

----------------------------------------------------------------------------
(* Pages.  A buffer is a record [shape |-> <<rows, columns>>, data |-> f]  *)
(* where f gives the value of the pixel <<y, x>>.  Every page is a 2-D     *)
(* 8-bit image whose pixels are black (0) or white (255).  A binary image  *)
(* (the 0/255 output of a threshold or of a morphological filter) is       *)
(* written as the set of its nonzero pixels.                               *)

MaxPageHeight == 3        \* most rows of a page given to detect_headers.py
MaxPageWidth == 2         \* most columns of such a page
MaxStaffPageHeight == 3   \* most rows of a page given to find_staff_regions

\* The 5 of "int(max(5, round(width * horizontal_kernel_ratio)))".
MinKernelLength == 5

\* Default horizontal_kernel_ratio = 0.15 of extract_staff_line_mask.
HorizontalKernelRatio == Rat(3, 20)

Levels == {0, 255}

Pixels(shape) == {<<y, c>> : y \in 0 .. shape[1] - 1, c \in 0 .. shape[2] - 1}

Pages(h, w) ==
    {[shape |-> <<h, w>>, data |-> d] : d \in [Pixels(<<h, w>>) -> Levels]}

SetMin(S) == CHOOSE m \in S : \A e \in S : m <= e
SetMax(S) == CHOOSE m \in S : \A e \in S : e <= m

\* int(round(r)) for a float r: Python rounds a half to the even neighbour.
Round(r) ==
    LET q == r[1] \div r[2]
        twice == 2 * (r[1] - q * r[2])
    IN  IF twice < r[2] THEN q
        ELSE IF twice > r[2] THEN q + 1
        ELSE IF q % 2 = 0 THEN q ELSE q + 1

\* _ensure_grayscale / _to_grayscale on a 2-D image: image.copy(), a new
\* array holding the same values.
_ensure_grayscale(img) == [shape |-> img.shape, data |-> img.data]

\* cv2.threshold(gray, 0, 255, THRESH_BINARY_INV + THRESH_OTSU).  On a page
\* whose pixels are all 0 or 255 Otsu's threshold is 0, so the nonzero
\* pixels of the result are the black pixels of the page.
ThresholdOtsuInv(gray) == {p \in Pixels(gray.shape) : ~(gray.data[p] > 0)}

\* Offsets covered by a kernel side of k cells anchored at its centre k // 2.
KernelOffsets(k) == (0 - (k \div 2)) .. (k - 1 - (k \div 2))

InImage(q, shape) ==
    /\ q[1] \in 0 .. shape[1] - 1
    /\ q[2] \in 0 .. shape[2] - 1

\* cv2.erode(src, kernel, iterations=1) with a rectangular kernel
\* ksize = <<columns, rows>>: a pixel stays when every pixel of the image
\* under the kernel is set; cells outside the image do not count.
Erode(src, ksize, shape) ==
    {p \in Pixels(shape) :
        \A dy \in KernelOffsets(ksize[2]), dx \in KernelOffsets(ksize[1]) :
            LET q == <<p[1] + dy, p[2] + dx>>
            IN  InImage(q, shape) => q \in src}

\* cv2.dilate(src, kernel, iterations=1): a pixel is set when some pixel of
\* the image under the kernel is set.
Dilate(src, ksize, shape) ==
    {p \in Pixels(shape) :
        \E dy \in KernelOffsets(ksize[2]), dx \in KernelOffsets(ksize[1]) :
            LET q == <<p[1] + dy, p[2] + dx>>
            IN  InImage(q, shape) /\ q \in src}

\* extract_staff_line_mask(image) with its default arguments.
extract_staff_line_mask(img) ==
    LET gray == _ensure_grayscale(img)
        binary == ThresholdOtsuInv(gray)
        width == gray.shape[2]
        rounded == Round(RMul(RInt(width), HorizontalKernelRatio))
        kernel_length == IF rounded > MinKernelLength THEN rounded
                         ELSE MinKernelLength
        horizontal_kernel == <<kernel_length, 1>>
        detected == Erode(binary, horizontal_kernel, gray.shape)
    IN  Dilate(detected, horizontal_kernel, gray.shape)

\* _dilate_for_grouping(mask, band_height=band_height)
_dilate_for_grouping(m, band_height, shape) ==
    LET kernel == <<1, band_height>>
        dilated == Dilate(m, kernel, shape)
    IN  Erode(dilated, kernel, shape)

\* connectivity=8
Adjacent8(p, q) ==
    /\ p # q
    /\ p[1] - q[1] \in -1 .. 1
    /\ p[2] - q[2] \in -1 .. 1

\* The pixels of fg joined to S through the pixels of frontier.
RECURSIVE Grow(_, _, _)
Grow(S, frontier, fg) ==
    LET reached == {q \in fg : /\ q \notin S
                                /\ \E p \in frontier : Adjacent8(p, q)}
    IN  IF reached = {} THEN S
        ELSE Grow({q \in fg : q \in S \/ q \in reached}, reached, fg)

\* The foreground components cv2.connectedComponentsWithStats labels 1, 2, ...
RECURSIVE ConnectedComponents(_)
ConnectedComponents(fg) ==
    IF fg = {} THEN {}
    ELSE LET seed == CHOOSE p \in fg : TRUE
             C == Grow({seed}, {seed}, fg)
         IN  {C} \cup ConnectedComponents({q \in fg : q \notin C})

\* One row of stats: CC_STAT_LEFT, TOP, WIDTH, HEIGHT, AREA.
ComponentStats(C) ==
    LET xs == {p[2] : p \in C}
        ys == {p[1] : p \in C}
    IN  [x |-> SetMin(xs), y |-> SetMin(ys),
         w |-> SetMax(xs) - SetMin(xs) + 1,
         h |-> SetMax(ys) - SetMin(ys) + 1,
         area |-> Cardinality(C)]

\* stats[1:] of cv2.connectedComponentsWithStats.  OpenCV does not say in
\* which order the components are numbered, so every order is possible.
LabelOrders(fg) ==
    LET comps == ConnectedComponents(fg)
        n == Cardinality(comps)
    IN  {[label \in 1 .. n |-> ComponentStats(order[label])] :
            order \in {f \in [1 .. n -> comps] :
                          \A i, j \in 1 .. n : i # j => f[i] # f[j]}}

----------------------------------------------------------------------------
(* find_staff_regions                                                      *)

StaffPageWidth == 2 * MinKernelLength + 1

\* Rows of the pages given to find_staff_regions, as sets of black columns:
\* blank, a run at the left, a run at the right, both, a full-width line,
\* and a run shorter than the kernel.
RowShapes ==
    LET left == 0 .. MinKernelLength - 1
        right == MinKernelLength + 1 .. 2 * MinKernelLength
    IN  {{}, left, right, left \cup right, 0 .. 2 * MinKernelLength,
         0 .. MinKernelLength - 2}

StaffPages(h) ==
    {[shape |-> <<h, StaffPageWidth>>,
      data |-> [p \in Pixels(<<h, StaffPageWidth>>) |->
                   IF p[2] \in rows[p[1]] THEN 0 ELSE 255]] :
        rows \in [0 .. h - 1 -> RowShapes]}

BandHeights == {1, 3}
MinAreas == {1, 6, 12}
IgnoreTopRatios == {Rat(0, 1), Rat(1, 10), Rat(1, 2), Rat(1, 1)}

StaffRegion(top, bottom, left, right) ==
    [top |-> top, bottom |-> bottom, left |-> left, right |-> right]

\* A faulty key that orders by top alone.
RegionKeyLessTopOnly(a, b) == a.top < b.top

\* key=lambda region: (region.top, region.left)
RegionKeyLess(a, b) ==
    \/ a.top < b.top
    \/ a.top = b.top /\ a.left < b.left

\* regions.sort(key=...): stable.
RECURSIVE InsertRegion(_, _)
InsertRegion(e, s) ==
    IF s = <<>> THEN <<e>>
    ELSE IF RegionKeyLess(e, Head(s)) THEN <<e>> \o s
    ELSE <<Head(s)>> \o InsertRegion(e, Tail(s))

RECURSIVE SortedRegions(_)
SortedRegions(s) ==
    IF s = <<>> THEN <<>>
    ELSE InsertRegion(s[Len(s)], SortedRegions(SubSeq(s, 1, Len(s) - 1)))

\* Lines 75-83: the loop over the labels, from label on, with the regions so far.
RECURSIVE RegionLoop(_, _, _, _, _)
RegionLoop(stats, label, regs, min_area, top_cutoff) ==
    IF label > Len(stats) THEN regs
    ELSE LET area == stats[label].area
             top == stats[label].y
             bottom == stats[label].y + stats[label].h
             left == stats[label].x
             right == stats[label].x + stats[label].w
         IN  RegionLoop(stats, label + 1,
                 IF area < min_area THEN regs
                 ELSE IF bottom <= top_cutoff THEN regs
                 ELSE Append(regs, StaffRegion(top, bottom, left, right)),
                 min_area, top_cutoff)

\* Lines 72-86, from the stats of the components.
find_staff_regions(stats, h, min_area, ignore_top_ratio) ==
    LET top_cutoff == Round(RMul(RInt(h), ignore_top_ratio))
    IN  SortedRegions(RegionLoop(stats, 1, <<>>, min_area, top_cutoff))

NoStaff ==
    /\ NoTrace
    /\ line_paths = <<>>
    /\ NoRect
    /\ NoGroup

\* find_staff_regions(image, band_height=..., min_area=..., ignore_top_ratio=...)
InitRegions ==
    /\ call = "find_staff_regions"
    /\ pc = "start"
    /\ err = ""
    /\ NoStaff
    /\ NoOmr
    /\ \E h \in 1 .. MaxStaffPageHeight : \E page \in StaffPages(h) :
           buffers = <<page>>
    /\ image = 1
    /\ args \in [band_height : BandHeights, min_area : MinAreas,
                 ignore_top_ratio : IgnoreTopRatios]
    /\ locals = <<>>
    /\ result = <<>>

\* Lines 68-86, the whole call.
FindStaffRegions ==
    /\ pc = "start"
    /\ call = "find_staff_regions"
    /\ LET m == extract_staff_line_mask(buffers[image])
           shape == buffers[image].shape
           grouped == _dilate_for_grouping(m, args.band_height, shape)
       IN  \E stats \in LabelOrders(grouped) :
               /\ locals' = [grouped |-> grouped, stats |-> stats]
               /\ result' = find_staff_regions(stats, shape[1], args.min_area,
                                               args.ignore_top_ratio)
    /\ pc' = "returned"
    /\ UNCHANGED <<call, err, staffVars, buffers, image, args>>
    /\ UNCHANGED omrVars

NextRegions == FindStaffRegions

SpecRegions == InitRegions /\ [][NextRegions]_vars

----------------------------------------------------------------------------
(* detect_headers.py                                                       *)

Thresholds == {0, 1, 245, 256}
HeaderRatios == {Rat(0, 1), Rat(1, 5), Rat(1, 2), Rat(1, 1)}
MinConfidences == {Rat(0, 1), Rat(3, 10), Rat(3, 4), Rat(1, 1)}

\* _to_grayscale on a 2-D image: image.copy().
_to_grayscale(img) == [shape |-> img.shape, data |-> img.data]

\* A faulty mask that also takes the pixels equal to the threshold.
ContentMaskInclusive(gray, threshold) ==
    {p \in Pixels(gray.shape) : gray.data[p] <= threshold}

\* content_mask = gray < threshold
ContentMask(gray, threshold) ==
    {p \in Pixels(gray.shape) : gray.data[p] < threshold}

\* estimate_page_margins(image, threshold=...)
estimate_page_margins(img, threshold) ==
    LET gray == _to_grayscale(img)
        content_mask == ContentMask(gray, threshold)
        rows == {p[1] : p \in content_mask}
        cols == {p[2] : p \in content_mask}
    IN  IF rows = {} \/ cols = {}
        THEN <<gray.shape[1], gray.shape[1], gray.shape[2], gray.shape[2]>>
        ELSE <<SetMin(rows), gray.shape[1] - SetMax(rows) - 1,
               SetMin(cols), gray.shape[2] - SetMax(cols) - 1>>

\* header_band_height = max(1, int(round(height * max_header_ratio)))
HeaderBandHeight(h, max_header_ratio) ==
    LET rounded == Round(RMul(RInt(h), max_header_ratio))
    IN  IF rounded > 1 THEN rounded ELSE 1

HeaderRegion(bbox, confidence) == [bbox |-> bbox, confidence |-> confidence]

\* float(np.count_nonzero(blob) / blob.size) for blob = header_band[y:y+h, x:x+w]
BlobConfidence(header_band, st) ==
    LET blob == {p \in header_band : /\ p[1] \in st.y .. st.y + st.h - 1
                                     /\ p[2] \in st.x .. st.x + st.w - 1}
    IN  Rat(Cardinality(blob), st.w * st.h)

\* A faulty test that also discards a confidence equal to min_confidence.
BelowConfidenceOrEqual(confidence, min_confidence) ==
    RLe(confidence, min_confidence)

\* "if confidence < min_confidence"
BelowConfidence(confidence, min_confidence) == RLt(confidence, min_confidence)

\* Lines 82-91: the loop over the labels, from label on, with the regions so far.
RECURSIVE HeaderLoop(_, _, _, _, _)
HeaderLoop(stats, label, regs, header_band, min_confidence) ==
    IF label > Len(stats) THEN regs
    ELSE LET st == stats[label]
             bbox == <<st.x, st.y, st.x + st.w, st.y + st.h>>
             confidence == BlobConfidence(header_band, st)
         IN  HeaderLoop(stats, label + 1,
                 IF st.area = 0 THEN regs
                 ELSE IF BelowConfidence(confidence, min_confidence) THEN regs
                 ELSE Append(regs, HeaderRegion(bbox, confidence)),
                 header_band, min_confidence)

\* regions.sort(key=lambda region: region.bbox[1]): stable.
RECURSIVE InsertHeader(_, _)
InsertHeader(e, s) ==
    IF s = <<>> THEN <<e>>
    ELSE IF e.bbox[2] < Head(s).bbox[2] THEN <<e>> \o s
    ELSE <<Head(s)>> \o InsertHeader(e, Tail(s))

RECURSIVE SortedHeaders(_)
SortedHeaders(s) ==
    IF s = <<>> THEN <<>>
    ELSE InsertHeader(s[Len(s)], SortedHeaders(SubSeq(s, 1, Len(s) - 1)))

\* estimate_page_margins(image, threshold=...) or
\* detect_header_regions(image, max_header_ratio=..., min_confidence=...)
InitLayout ==
    /\ pc = "start"
    /\ err = ""
    /\ NoStaff
    /\ NoOmr
    /\ \E h \in 1 .. MaxPageHeight, w \in 1 .. MaxPageWidth :
           \E page \in Pages(h, w) : buffers = <<page>>
    /\ image = 1
    /\ \/ /\ call = "estimate_page_margins"
          /\ args \in [threshold : Thresholds]
       \/ /\ call = "detect_header_regions"
          /\ args \in [max_header_ratio : HeaderRatios,
                       min_confidence : MinConfidences]
    /\ locals = <<>>
    /\ result = <<>>

\* Lines 33-47, the whole call.
EstimatePageMargins ==
    /\ pc = "start"
    /\ call = "estimate_page_margins"
    /\ result' = estimate_page_margins(buffers[image], args.threshold)
    /\ pc' = "returned"
    /\ UNCHANGED <<call, err, staffVars, buffers, image, args, locals>>
    /\ UNCHANGED omrVars

\* Lines 69-94, the whole call.
DetectHeaderRegions ==
    /\ pc = "start"
    /\ call = "detect_header_regions"
    /\ LET gray == _to_grayscale(buffers[image])
           page_height == gray.shape[1]
           header_band_height == HeaderBandHeight(page_height, args.max_header_ratio)
           binary == ThresholdOtsuInv(gray)
           header_band == {p \in binary : p[1] < header_band_height}
           rows == IF header_band_height < page_height THEN header_band_height
                   ELSE page_height
       IN  IF rows * gray.shape[2] = 0
           THEN /\ locals' = [header_band |-> header_band, stats |-> <<>>]
                /\ result' = <<>>
           ELSE \E stats \in LabelOrders(header_band) :
                    /\ locals' = [header_band |-> header_band, stats |-> stats]
                    /\ result' = SortedHeaders(HeaderLoop(stats, 1, <<>>,
                                     header_band, args.min_confidence))
    /\ pc' = "returned"
    /\ UNCHANGED <<call, err, staffVars, buffers, image, args>>
    /\ UNCHANGED omrVars

NextLayout ==
    \/ EstimatePageMargins
    \/ DetectHeaderRegions

SpecLayout == InitLayout /\ [][NextLayout]_vars

----------------------------------------------------------------------------
(* preprocess/normalize.py.  The arrays live in buffers; a call receives   *)
(* and returns buffer ids, so that a copy and an alias differ.  The pixel  *)
(* values OpenCV computes (resize, warpAffine, denoising, ...) are outside *)
(* the model: every pixel of such an array holds the name of the OpenCV    *)
(* function that produced it.  ValueError is "InvalidConfiguration".       *)

MaxImageSide == 2     \* most rows and most columns of an input image

DpiValues == {-1, 0, 1, 2, 5}
BlockSizes == {-2, -1, 0, 1, 2, 3}

\* PreprocessConfig; denoise_strength and adaptive_c keep their defaults.
Configs ==
    [target_dpi : DpiValues, denoise_strength : {10},
     adaptive_block_size : BlockSizes, adaptive_c : {10}]

\* PreprocessConfig()
DefaultConfig ==
    [target_dpi |-> 300, denoise_strength |-> 10,
     adaptive_block_size |-> 35, adaptive_c |-> 10]

\* config=None
None == [none |-> TRUE]

\* A faulty copy that hands back the array itself.
ArrayAlias(bufs, id) == [err |-> "", buffers |-> bufs, out |-> id]

\* image.copy(): a new array with the same shape and values.
ArrayCopy(bufs, id) ==
    [err |-> "", buffers |-> Append(bufs, bufs[id]), out |-> Len(bufs) + 1]

\* The new array an OpenCV function returns.
NewArray(bufs, shape, producer) ==
    [err |-> "",
     buffers |-> Append(bufs, [shape |-> shape,
                               data |-> [p \in Pixels(shape) |-> producer]]),
     out |-> Len(bufs) + 1]

Raised(bufs, error) == [err |-> error, buffers |-> bufs, out |-> 0]

\* A faulty validation that lets equal values through.
InvalidDpiUnlessEqual(current_dpi, target_dpi) ==
    current_dpi # target_dpi /\ (current_dpi <= 0 \/ target_dpi <= 0)

\* Lines 96-99
InvalidDpi(current_dpi, target_dpi) == current_dpi <= 0 \/ target_dpi <= 0

\* A faulty size that may be 0.
ScaledSizeUnclamped(side, scale) == Round(RMul(RInt(side), scale))

\* max(1, int(round(image.shape[i] * scale)))
ScaledSize(side, scale) ==
    LET rounded == Round(RMul(RInt(side), scale))
    IN  IF rounded > 1 THEN rounded ELSE 1

\* normalize_image_dpi(image, current_dpi=..., target_dpi=...) with
\* interpolation=None.
normalize_image_dpi(bufs, id, current_dpi, target_dpi) ==
    IF InvalidDpi(current_dpi, target_dpi)
    THEN Raised(bufs, "InvalidConfiguration")
    ELSE IF target_dpi = current_dpi THEN ArrayCopy(bufs, id)
    ELSE LET scale == Rat(target_dpi, current_dpi)
             interpolation_mode == IF RLt(RInt(1), scale) THEN "INTER_CUBIC"
                                   ELSE "INTER_AREA"
             new_width == ScaledSize(bufs[id].shape[2], scale)
             new_height == ScaledSize(bufs[id].shape[1], scale)
         IN  NewArray(bufs, <<new_height, new_width>>, interpolation_mode)

\* A faulty deskew that rotates the input array in place.
deskew_image_in_place(bufs, id, skewed) ==
    IF ~skewed THEN ArrayCopy(bufs, id)
    ELSE [err |-> "",
          buffers |-> [bufs EXCEPT ![id].data = [p \in DOMAIN @ |-> 255 - @[p]]],
          out |-> id]

\* deskew_image; skewed tells whether detect_skew_angle found an angle of
\* 0.01 degrees or more.  The angle it returns is dropped by the pipeline.
deskew_image(bufs, id, skewed) ==
    IF ~skewed THEN ArrayCopy(bufs, id)
    ELSE NewArray(bufs, bufs[id].shape, "warpAffine")

\* denoise_image on a 2-D image
denoise_image(bufs, id, strength) ==
    NewArray(bufs, bufs[id].shape, "fastNlMeansDenoising")

\* correct_illumination on a 2-D image
correct_illumination(bufs, id) == NewArray(bufs, bufs[id].shape, "divide")

\* A faulty test that lets even sizes below 1 through.
EvenBlockSizePositive(block_size) == block_size > 0 /\ block_size % 2 = 0

\* block_size % 2 == 0
EvenBlockSize(block_size) == block_size % 2 = 0

\* adaptive_binarize(image, block_size=..., c=...); cv2.adaptiveThreshold
\* rejects a blockSize that is not an odd number above 1.
adaptive_binarize(bufs, id, block_size, c) ==
    IF EvenBlockSize(block_size) THEN Raised(bufs, "InvalidConfiguration")
    ELSE IF block_size <= 1 THEN Raised(bufs, "cv2.error")
    ELSE NewArray(bufs, bufs[id].shape, "adaptiveThreshold")

\* normalize_image_dpi, adaptive_binarize or preprocess_pipeline on a 2-D
\* image; for the pipeline the caller also holds the DPI that
\* load_image_with_metadata reported for the image.
InitPreprocess ==
    /\ pc = "start"
    /\ err = ""
    /\ NoStaff
    /\ NoOmr
    /\ \E h \in 1 .. MaxImageSide, w \in 1 .. MaxImageSide :
           \E page \in Pages(h, w) : buffers = <<page>>
    /\ image = 1
    /\ \/ /\ call = "normalize_image_dpi"
          /\ args \in [current_dpi : DpiValues, target_dpi : DpiValues]
          /\ locals = <<>>
       \/ /\ call = "adaptive_binarize"
          /\ args \in [block_size : BlockSizes, c : {10}]
          /\ locals = <<>>
       \/ /\ call = "preprocess_pipeline"
          /\ args \in [config : Configs \cup {None}]
          /\ \E dpi \in {d \in DpiValues : d > 0} :
                 locals = [current_dpi |-> dpi, stages |-> <<>>, config |-> None,
                           last |-> image]
    /\ result = 0

\* The end of a call that is not part of the pipeline.
Finish(outcome) ==
    /\ buffers' = outcome.buffers
    /\ result' = outcome.out
    /\ err' = outcome.err
    /\ pc' = IF outcome.err = "" THEN "returned" ELSE "failed"

\* Lines 96-111, the whole call.
NormalizeImageDpi ==
    /\ pc = "start"
    /\ call = "normalize_image_dpi"
    /\ Finish(normalize_image_dpi(buffers, image, args.current_dpi,
                                  args.target_dpi))
    /\ UNCHANGED <<call, staffVars, image, args, locals>>
    /\ UNCHANGED omrVars

\* Lines 220-222, the whole call.
AdaptiveBinarize ==
    /\ pc = "start"
    /\ call = "adaptive_binarize"
    /\ Finish(adaptive_binarize(buffers, image, args.block_size, args.c))
    /\ UNCHANGED <<call, staffVars, image, args, locals>>
    /\ UNCHANGED omrVars

\* The caller stores a value into a corner of the array it got back.
WriteResult ==
    /\ pc = "returned"
    /\ call = "normalize_image_dpi"
    /\ \E p \in {<<0, 0>>, <<buffers[result].shape[1] - 1,
                             buffers[result].shape[2] - 1>>}, v \in Levels :
           buffers' = [buffers EXCEPT ![result].data[p] = v]
    /\ pc' = "written"
    /\ UNCHANGED <<call, err, staffVars, image, args, locals, result>>
    /\ UNCHANGED omrVars

\* One stage of preprocess_pipeline: its outcome is kept as the input of the
\* next stage, or the error leaves the pipeline.
Stage(name, outcome, next) ==
    /\ buffers' = outcome.buffers
    /\ err' = outcome.err
    /\ IF outcome.err = ""
       THEN /\ locals' = [locals EXCEPT !.stages = Append(@, name),
                                        !.last = outcome.out]
            /\ pc' = next
       ELSE /\ locals' = locals
            /\ pc' = "failed"

\* Lines 228-233: the configuration and the DPI stage.
PipelineNormalize ==
    /\ pc = "start"
    /\ call = "preprocess_pipeline"
    /\ LET config == IF args.config = None THEN DefaultConfig ELSE args.config
           outcome == normalize_image_dpi(buffers, image, config.target_dpi,
                                          config.target_dpi)
       IN  /\ buffers' = outcome.buffers
           /\ err' = outcome.err
           /\ IF outcome.err = ""
              THEN /\ locals' = [locals EXCEPT
                                    !.config = config,
                                    !.stages = <<"normalize_image_dpi">>,
                                    !.last = outcome.out]
                   /\ pc' = "deskew"
              ELSE /\ locals' = [locals EXCEPT !.config = config]
                   /\ pc' = "failed"
    /\ UNCHANGED <<call, staffVars, image, args, result>>
    /\ UNCHANGED omrVars

\* Line 234
PipelineDeskew ==
    /\ pc = "deskew"
    /\ \E skewed \in BOOLEAN :
           Stage("deskew_image", deskew_image(buffers, locals.last, skewed),
                 "denoise")
    /\ UNCHANGED <<call, staffVars, image, args, result>>
    /\ UNCHANGED omrVars

\* Line 235
PipelineDenoise ==
    /\ pc = "denoise"
    /\ Stage("denoise_image",
             denoise_image(buffers, locals.last, locals.config.denoise_strength),
             "illumination")
    /\ UNCHANGED <<call, staffVars, image, args, result>>
    /\ UNCHANGED omrVars

\* Line 236
PipelineIllumination ==
    /\ pc = "illumination"
    /\ Stage("correct_illumination", correct_illumination(buffers, locals.last),
             "binarize")
    /\ UNCHANGED <<call, staffVars, image, args, result>>
    /\ UNCHANGED omrVars

\* Lines 237-238
PipelineBinarize ==
    /\ pc = "binarize"
    /\ LET outcome == adaptive_binarize(buffers, locals.last,
                                        locals.config.adaptive_block_size,
                                        locals.config.adaptive_c)
       IN  /\ Stage("adaptive_binarize", outcome, "returned")
           /\ result' = outcome.out
    /\ UNCHANGED <<call, staffVars, image, args>>
    /\ UNCHANGED omrVars

NextPreprocess ==
    \/ NormalizeImageDpi
    \/ AdaptiveBinarize
    \/ WriteResult
    \/ PipelineNormalize
    \/ PipelineDeskew
    \/ PipelineDenoise
    \/ PipelineIllumination
    \/ PipelineBinarize

SpecPreprocess == InitPreprocess /\ [][NextPreprocess]_vars

----------------------------------------------------------------------------
(* backend/app: the OMR service (services/omr.py).                         *)
(*                                                                         *)
(* A text that the code inspects character by character (a command-line    *)
(* argument, a result identifier) is a list of one-character strings.  A   *)
(* path is [dir, stem, suffix]; the file system maps each existing path to *)
(* its content.  An optional integer is <<>> (None) or <<n>>.  The outcome *)
(* of an operation is [err, files, value]: the exception raised or "", the *)
(* file system it leaves and the value it returns.                         *)

MaxArguments == 2     \* most extra arguments of a call

\* The arguments drawn for presets and extra_cli_arguments.
Arguments == {<<>>, <<" ">>, <<"a">>, <<" ", "b", " ">>}

ArgumentLists == UNION {[1 .. n -> Arguments] : n \in 0 .. MaxArguments}

\* A faulty strip that leaves the text as it is.
Unstripped(text) == text

\* str.strip() on a text whose only whitespace is the space.
Strip(text) ==
    LET RECURSIVE LStrip(_)
        LStrip(t) == IF t # <<>> /\ Head(t) = " " THEN LStrip(Tail(t)) ELSE t
        RECURSIVE RStrip(_)
        RStrip(t) ==
            IF t # <<>> /\ t[Len(t)] = " "
            THEN RStrip(SubSeq(t, 1, Len(t) - 1)) ELSE t
    IN  RStrip(LStrip(text))

\* " ".join(parts)
RECURSIVE Join(_)
Join(parts) ==
    IF parts = <<>> THEN <<>>
    ELSE IF Len(parts) = 1 THEN parts[1]
    ELSE parts[1] \o <<" ">> \o Join(Tail(parts))

\* _normalize_cli_arguments on a list (None gives the same as the empty list).
_normalize_cli_arguments(arguments) ==
    SelectSeq([i \in 1 .. Len(arguments) |-> Strip(arguments[i])],
              LAMBDA text : text # <<>>)

\* A file made by tempfile: the name is new each time, name tells its role.
TempPath(name, suffix) == [dir |-> "tmp", stem |-> <<name>>, suffix |-> suffix]

\* settings.results_dir / f"{result_id}.musicxml"
ResultPath(result_id) ==
    [dir |-> "results_dir", stem |-> result_id, suffix |-> ".musicxml"]

\* Creating or overwriting a file.
Write(fs, path, content) ==
    [p \in DOMAIN fs \cup {path} |-> IF p = path THEN content ELSE fs[p]]

\* unlink(missing_ok=True), rmtree(ignore_errors=True)
Remove(fs, path) == [p \in DOMAIN fs \ {path} |-> fs[p]]

OmrRaised(fs, error) == [err |-> error, files |-> fs, value |-> None]

Returned(fs, value) == [err |-> "", files |-> fs, value |-> value]

\* str.lower() on the suffixes and modes drawn here.
Lower(text) ==
    CASE text = ".PDF" -> ".pdf"
      [] text = "Printed" -> "printed"
      [] OTHER -> text

\* _extract_pdf_page: the value is <<temp_path, target_page, total_pages>>.
_extract_pdf_page(fs, original_path, page) ==
    LET document == fs[original_path]
        target_page == IF page = <<>> THEN 1 ELSE page[1]
        temp_path == TempPath("page", ".pdf")
    IN  IF document.kind # "pdf" THEN OmrRaised(fs, "OMRProcessingError")
        ELSE IF document.pages = 0 THEN OmrRaised(fs, "OMRProcessingError")
        ELSE IF target_page < 1 THEN OmrRaised(fs, "OMRProcessingError")
        ELSE IF target_page > document.pages
        THEN OmrRaised(fs, "OMRProcessingError")
        ELSE Returned(Write(fs, temp_path, [kind |-> "pdf", pages |-> 1]),
                      <<temp_path, <<target_page>>, <<document.pages>>>>)

\* _prepare_input_for_omr
_prepare_input_for_omr(fs, input_path, page) ==
    IF Lower(input_path.suffix) # ".pdf"
    THEN IF page # <<>> /\ page[1] < 1
         THEN OmrRaised(fs, "OMRProcessingError")
         ELSE Returned(fs, <<input_path,
                             IF page # <<>> /\ page[1] > 0 THEN page ELSE <<>>,
                             <<>>>>)
    ELSE _extract_pdf_page(fs, input_path, page)

\* What subprocess.run and the search for the exported file can end in.
AudiverisOutcomes ==
    {"exported", "FileNotFoundError", "TimeoutExpired", "CalledProcessError",
     "no MusicXML", "PermissionError"}

\* _run_with_audiveris: the outcome also carries the command that was run.
_run_with_audiveris(fs, program, input_path, extra_arguments, outcome) ==
    LET output_dir == TempPath("omr_audiveris_", "")
        created == Write(fs, output_dir, [kind |-> "directory"])
        command == [program |-> program,
                    options |-> <<"-batch", "-export">>,
                    arguments |-> _normalize_cli_arguments(extra_arguments),
                    output |-> output_dir,
                    input |-> input_path]
        tmp_path == TempPath("audiveris", ".musicxml")
    IN  IF outcome = "PermissionError"
        THEN [err |-> "PermissionError", files |-> created, value |-> None,
              command |-> command]
        ELSE IF outcome # "exported"
        THEN [err |-> "OMRProcessingError", files |-> created, value |-> None,
              command |-> command]
        ELSE [err |-> "",
              files |-> Remove(Write(created, tmp_path,
                                     [kind |-> "audiveris", input |-> input_path]),
                               output_dir),
              value |-> tmp_path,
              command |-> command]

\* _generate_stub_result: the content holds what the encoding block says.
_generate_stub_result(fs, source_name, page_number, processing_mode, cli_arguments) ==
    LET normalized_arguments == _normalize_cli_arguments(cli_arguments)
        tmp_path == TempPath("stub", ".musicxml")
    IN  Returned(Write(fs, tmp_path,
                       [kind |-> "stub",
                        source_name |-> source_name,
                        processing_mode |-> processing_mode,
                        page_number |-> page_number,
                        arguments_text |-> Join(normalized_arguments)]),
                 tmp_path)

\* _store_musicxml_result with uuid4().hex = hex: the value is
\* <<result_id, destination>>.
_store_musicxml_result(fs, musicxml_path, hex) ==
    IF musicxml_path \notin DOMAIN fs THEN OmrRaised(fs, "OMRProcessingError")
    ELSE LET destination == ResultPath(hex)
         IN  Returned(Write(Remove(fs, musicxml_path), destination,
                            fs[musicxml_path]),
                      <<hex, destination>>)

\* (processing_mode or settings.default_processing_mode).strip().lower(); a
\* mode is the list of its leading spaces, its word and its trailing spaces,
\* and <<>> stands for None and for "".
NormalizeMode(processing_mode, default_processing_mode) ==
    LET chosen == IF processing_mode # <<>> THEN processing_mode
                  ELSE default_processing_mode
        stripped == Strip(chosen)
    IN  IF stripped = <<>> THEN "" ELSE Lower(stripped[1])

\* A faulty handler that falls back to the stub whatever the settings say.
UsesStubAlways(error, cfg) == error = "OMRProcessingError"

\* "except OMRProcessingError" with "if not settings.enable_stub_omr: raise"
UsesStub(error, cfg) == error = "OMRProcessingError" /\ cfg.enable_stub_omr

\* Lines 97-104: the result of a run whose MusicXML was stored.
MakeResult(stored, command, selected_mode, prepared_value, effective_arguments) ==
    IF stored.err # ""
    THEN [err |-> stored.err, files |-> stored.files, value |-> None,
          command |-> command]
    ELSE [err |-> "",
          files |-> stored.files,
          value |-> [result_id |-> stored.value[1],
                     musicxml_path |-> stored.value[2],
                     processing_mode |-> selected_mode,
                     page_number |-> prepared_value[2],
                     total_pages |-> prepared_value[3],
                     applied_arguments |-> effective_arguments],
          command |-> command]

\* Lines 92-96: the finally clause, then the exception leaves the call or
\* the MusicXML is stored.
CleanUp(handled, command, input_path, selected_mode, prepared_value, effective_arguments, hex) ==
    LET prepared_path == prepared_value[1]
        cleaned == IF prepared_path # input_path
                   THEN Remove(handled.files, prepared_path)
                   ELSE handled.files
    IN  IF handled.err # ""
        THEN [err |-> handled.err, files |-> cleaned, value |-> None,
              command |-> command]
        ELSE MakeResult(_store_musicxml_result(cleaned, handled.value, hex),
                        command, selected_mode, prepared_value,
                        effective_arguments)

\* Lines 82-91: the except clause.
HandleFailure(attempt, cfg, input_path, selected_mode, prepared_value, effective_arguments, hex) ==
    CleanUp(IF UsesStub(attempt.err, cfg)
            THEN _generate_stub_result(
                     attempt.files,
                     [stem |-> input_path.stem, suffix |-> input_path.suffix],
                     prepared_value[2], selected_mode, effective_arguments)
            ELSE attempt,
            attempt.command, input_path, selected_mode, prepared_value,
            effective_arguments, hex)

\* Lines 69-81: the prepared input goes to Audiveris if a command is set.
RunPrepared(prepared, cfg, input_path, selected_mode, effective_arguments, outcome, hex) ==
    IF prepared.err # ""
    THEN [err |-> prepared.err, files |-> prepared.files, value |-> None,
          command |-> None]
    ELSE HandleFailure(
             IF cfg.audiveris_command # <<>>
             THEN _run_with_audiveris(prepared.files, cfg.audiveris_command,
                                      prepared.value[1], effective_arguments,
                                      outcome)
             ELSE [err |-> "OMRProcessingError", files |-> prepared.files,
                   value |-> None, command |-> None],
             cfg, input_path, selected_mode, prepared.value,
             effective_arguments, hex)

\* run_omr with the outcome of the Audiveris run and the uuid drawn by the
\* store; the outcome also carries the command passed to Audiveris, if any.
run_omr(fs, cfg, input_path, page, processing_mode, extra_cli_arguments, outcome, hex) ==
    LET selected_mode == NormalizeMode(processing_mode,
                                       cfg.default_processing_mode)
        available_modes == cfg.audiveris_processing_presets
    IN  IF input_path \notin DOMAIN fs \/ selected_mode \notin DOMAIN available_modes
        THEN [err |-> "OMRProcessingError", files |-> fs, value |-> None,
              command |-> None]
        ELSE RunPrepared(
                 _prepare_input_for_omr(fs, input_path, page), cfg, input_path,
                 selected_mode,
                 _normalize_cli_arguments(available_modes[selected_mode])
                     \o _normalize_cli_arguments(extra_cli_arguments),
                 outcome, hex)

\* A faulty check that accepts every identifier.
_is_safe_anything(value) == TRUE

\* _is_safe_identifier
_is_safe_identifier(value) ==
    LET allowed ==
            {"a", "b", "c", "d", "e", "f", "g", "h", "i", "j", "k", "l", "m",
             "n", "o", "p", "q", "r", "s", "t", "u", "v", "w", "x", "y", "z",
             "A", "B", "C", "D", "E", "F", "G", "H", "I", "J", "K", "L", "M",
             "N", "O", "P", "Q", "R", "S", "T", "U", "V", "W", "X", "Y", "Z",
             "0", "1", "2", "3", "4", "5", "6", "7", "8", "9", "-", "_"}
    IN  \A i \in 1 .. Len(value) : value[i] \in allowed

\* resolve_musicxml_path
resolve_musicxml_path(fs, result_id) ==
    IF result_id = <<>> \/ ~_is_safe_identifier(result_id)
    THEN OmrRaised(fs, "FileNotFoundError")
    ELSE LET target_path == ResultPath(result_id)
         IN  IF target_path \notin DOMAIN fs
             THEN OmrRaised(fs, "FileNotFoundError")
             ELSE Returned(fs, target_path)

----------------------------------------------------------------------------
(* backend/app: the routes (api/routes/omr.py) and the application.        *)
(* A response is [status_code, body, files], files being the file system   *)
(* the handler leaves.                                                     *)

ALLOWED_EXTENSIONS == {".png", ".jpg", ".jpeg", ".pdf"}

MAX_FILE_SIZE_BYTES == 10 * 1024 * 1024

\* raise HTTPException(status_code=...), as create_app's handler renders it
HttpError(fs, status_code) ==
    [status_code |-> status_code, body |-> [status |-> "error"], files |-> fs]

\* Lines 95-115 of process_score: the answer after run_omr, the upload
\* copy removed.  An exception other than OMRProcessingError is answered
\* by the application with 500 too.
ScoreResponse(ran, cfg, file, temp_path) ==
    LET base_url == IF cfg.public_base_url = "https://backend.example.com/"
                    THEN "https://backend.example.com"
                    ELSE cfg.public_base_url
    IN  IF ran.err # "" THEN HttpError(Remove(ran.files, temp_path), 500)
        ELSE [status_code |-> 200,
              body |-> [status |-> "ok",
                        musicxml_url |-> [base |-> base_url,
                                          path |-> "/api/files/musicxml/",
                                          result_id |-> ran.value.result_id],
                        result_id |-> ran.value.result_id,
                        original_filename |-> file.filename,
                        page_number |-> ran.value.page_number,
                        total_pages |-> ran.value.total_pages,
                        processing_mode |-> ran.value.processing_mode,
                        applied_cli_arguments |-> ran.value.applied_arguments],
              files |-> Remove(ran.files, temp_path)]

\* process_score.  file is [filename, size, content] with the filename as
\* [stem, suffix]; advanced_options is [tokens, balanced]: the tokens
\* shlex.split finds in the text, and whether its quotes are closed.
process_score(fs, cfg, file, page, processing_mode, advanced_options, outcome, hex) ==
    LET extension == Lower(file.filename.suffix)
        available_modes ==
            {Lower(mode) : mode \in DOMAIN cfg.audiveris_processing_presets}
        selected_mode == NormalizeMode(processing_mode,
                                       cfg.default_processing_mode)
        temp_path == TempPath("upload", extension)
    IN  IF Strip(file.filename.stem) = <<>> /\ file.filename.suffix = ""
        THEN HttpError(fs, 400)
        ELSE IF extension \notin ALLOWED_EXTENSIONS THEN HttpError(fs, 400)
        ELSE IF file.size = 0 THEN HttpError(fs, 400)
        ELSE IF file.size > MAX_FILE_SIZE_BYTES THEN HttpError(fs, 413)
        ELSE IF page # <<>> /\ page[1] < 1 THEN HttpError(fs, 422)
        ELSE IF selected_mode \notin available_modes THEN HttpError(fs, 422)
        ELSE IF ~advanced_options.balanced THEN HttpError(fs, 400)
        ELSE ScoreResponse(
                 run_omr(Write(fs, temp_path, file.content), cfg, temp_path,
                         page, <<selected_mode>>, advanced_options.tokens,
                         outcome, hex),
                 cfg, file, temp_path)

\* download_musicxml
download_musicxml(fs, result_id) ==
    LET resolved == resolve_musicxml_path(fs, result_id)
    IN  IF resolved.err # "" THEN HttpError(fs, 404)
        ELSE [status_code |-> 200,
              body |-> [file_path |-> resolved.value,
                        content |-> fs[resolved.value],
                        media_type |-> "application/vnd.recordare.musicxml+xml"],
              files |-> fs]

\* include_routers: the routers the application is given.
include_routers == {"health"}

\* The application answering a request: the handler of the route if its
\* router was included, otherwise 404 Not Found.
Serve(fs, cfg, request, outcome, hex) ==
    LET router == IF request.route = "/api/health" THEN "health" ELSE "omr"
    IN  IF router \notin include_routers THEN HttpError(fs, 404)
        ELSE IF request.route = "/api/health"
        THEN [status_code |-> 200, body |-> [status |-> "ok"], files |-> fs]
        ELSE IF request.route = "/api/omr"
        THEN process_score(fs, cfg, request.file, request.page,
                           request.processing_mode, request.advanced_options,
                           outcome, hex)
        ELSE download_musicxml(fs, request.result_id)

----------------------------------------------------------------------------
(* The backend calls.                                                      *)

\* Settings as the validators of core/config.py leave them.
SettingsValues ==
    [audiveris_command : {<<>>, <<"audiveris">>},
     enable_stub_omr : BOOLEAN,
     default_processing_mode : {<<"auto">>},
     audiveris_processing_presets :
         {[mode \in {"auto", "printed", "handwritten"} |->
              IF mode = "printed" THEN <<<<"a">>, <<"b">>>> ELSE <<>>],
          [mode \in {"auto", "printed", "handwritten"} |->
              IF mode = "auto" THEN <<<<" ", "b", " ">>, <<" ">>>> ELSE <<>>]},
     public_base_url : {"http://testserver", "https://backend.example.com/"}]

\* Identifiers asked for: empty, stored, safe but not stored, stored but
\* with a dot, and one that climbs out of results_dir.
ResultIds ==
    {<<>>, <<"a", "Z">>, <<"0", "-", "_">>, <<"m">>, <<"a", ".", "b">>,
     <<".", ".", "/", "x">>}

\* The files that exist before the call: results of earlier runs, and files
\* that an unsafe identifier would reach.
StoredResults ==
    [path \in {ResultPath(id) :
                  id \in {<<>>, <<"a", "Z">>, <<"a", ".", "b">>,
                          <<".", ".", "/", "x">>}} |->
        [kind |-> "stored", result_id |-> path.stem]]

\* Values of uuid.uuid4().hex, new at each call.
Uuids == {<<"0", "f">>, <<"3", "c">>}

\* page: None, 0, 1, 3
PageNumbers == {<<>>, <<0>>, <<1>>, <<3>>}

\* processing_mode: None, "printed", " Printed ", "experimental"
Modes == {<<>>, <<"printed">>, <<" ", "Printed", " ">>, <<"experimental">>}

\* The caller's input file of run_omr: an image, a PDF of two pages, an
\* empty PDF, a PDF that cannot be read, and a path with no file (<<>>).
InputFiles ==
    LET image_path == [dir |-> "scores", stem |-> <<"partitura">>,
                       suffix |-> ".png"]
        pdf_path == [dir |-> "scores", stem |-> <<"score">>, suffix |-> ".PDF"]
    IN  {[path |-> image_path, content |-> <<[kind |-> "png", pages |-> 0]>>],
         [path |-> image_path, content |-> <<>>],
         [path |-> pdf_path, content |-> <<[kind |-> "pdf", pages |-> 2]>>],
         [path |-> pdf_path, content |-> <<[kind |-> "pdf", pages |-> 0]>>],
         [path |-> pdf_path, content |-> <<[kind |-> "garbage", pages |-> 0]>>]}

\* The uploads posted to /api/omr.
Uploads ==
    LET File(stem, suffix, size, kind, pages) ==
            [filename |-> [stem |-> stem, suffix |-> suffix],
             size |-> size,
             content |-> [kind |-> kind, pages |-> pages]]
    IN  {File(<<"partitura">>, ".png", 12, "png", 0),
         File(<<"score">>, ".PDF", 12, "pdf", 2),
         File(<<"score">>, ".PDF", 12, "garbage", 0),
         File(<<"notes">>, ".txt", 12, "text", 0),
         File(<<" ">>, "", 12, "png", 0),
         File(<<"partitura">>, ".png", 0, "png", 0),
         File(<<"partitura">>, ".png", MAX_FILE_SIZE_BYTES, "png", 0),
         File(<<"partitura">>, ".png", MAX_FILE_SIZE_BYTES + 1, "png", 0)}

\* advanced_options: texts of up to MaxArguments tokens, and a text whose
\* quote is never closed.
AdvancedOptions ==
    {[tokens |-> tokens, balanced |-> TRUE] : tokens \in ArgumentLists}
    \cup {[tokens |-> <<>>, balanced |-> FALSE]}

\* The requests sent to the application built by create_app.
Requests ==
    {[method |-> "GET", route |-> "/api/health"]}
    \cup {[method |-> "POST", route |-> "/api/omr", file |-> file,
           page |-> page, processing_mode |-> <<>>,
           advanced_options |-> [tokens |-> <<>>, balanced |-> TRUE]] :
             file \in Uploads, page \in PageNumbers}
    \cup {[method |-> "GET", route |-> "/api/files/musicxml/{result_id}",
           result_id |-> id] : id \in ResultIds}

\* A call of run_omr, resolve_musicxml_path, download_musicxml or
\* process_score, or a request to the application built by create_app.
InitOmr ==
    /\ pc = "start"
    /\ err = ""
    /\ NoStaff
    /\ buffers = <<>>
    /\ image = 0
    /\ locals = None
    /\ result = None
    /\ settings \in SettingsValues
    /\ \/ /\ call = "run_omr"
          /\ args \in [input : InputFiles, page : PageNumbers,
                       processing_mode : Modes,
                       extra_cli_arguments : ArgumentLists]
          /\ files = IF args.input.content = <<>> THEN StoredResults
                     ELSE Write(StoredResults, args.input.path,
                                args.input.content[1])
       \/ /\ call \in {"resolve_musicxml_path", "download_musicxml"}
          /\ args \in [result_id : ResultIds]
          /\ files = StoredResults
       \/ /\ call = "process_score"
          /\ args \in [file : Uploads, page : PageNumbers, processing_mode : Modes,
                       advanced_options : AdvancedOptions]
          /\ files = StoredResults
       \/ /\ call = "create_app"
          /\ args \in Requests
          /\ files = StoredResults

\* The end of run_omr: the command it passed to Audiveris, if it ran it, and
\* the outcome of that run are kept too.
EndRun(ran, outcome) ==
    /\ files' = ran.files
    /\ err' = ran.err
    /\ result' = ran.value
    /\ locals' = [command |-> ran.command, outcome |-> outcome]
    /\ pc' = IF ran.err = "" THEN "returned" ELSE "failed"

\* run_omr, lines 53-104, the whole call.
RunOmr ==
    /\ pc = "start"
    /\ call = "run_omr"
    /\ \E outcome \in AudiverisOutcomes, hex \in Uuids :
           EndRun(run_omr(files, settings, args.input.path, args.page,
                          args.processing_mode, args.extra_cli_arguments,
                          outcome, hex), outcome)
    /\ UNCHANGED <<call, staffVars, buffers, image, args, settings>>

\* The caller of run_omr resolves the result_id it got back.
ResolveStored ==
    /\ pc = "returned"
    /\ call = "run_omr"
    /\ LET resolved == resolve_musicxml_path(files, result.result_id)
       IN  /\ locals' = [command |-> locals.command,
                         outcome |-> locals.outcome,
                         resolved |-> resolved.value]
           /\ err' = resolved.err
           /\ files' = resolved.files
    /\ pc' = "resolved"
    /\ UNCHANGED <<call, staffVars, buffers, image, args, result, settings>>

\* resolve_musicxml_path, lines 110-116, the whole call.
ResolveMusicxmlPath ==
    /\ pc = "start"
    /\ call = "resolve_musicxml_path"
    /\ LET resolved == resolve_musicxml_path(files, args.result_id)
       IN  /\ files' = resolved.files
           /\ err' = resolved.err
           /\ result' = resolved.value
           /\ pc' = IF resolved.err = "" THEN "returned" ELSE "failed"
    /\ UNCHANGED <<call, staffVars, buffers, image, args, locals, settings>>

\* The end of a handler or of a request: the response is the result.
Respond(response) ==
    /\ files' = response.files
    /\ result' = [status_code |-> response.status_code, body |-> response.body]
    /\ pc' = "responded"
    /\ UNCHANGED <<call, err, staffVars, buffers, image, args, locals, settings>>

\* download_musicxml called as a function.
DownloadMusicxml ==
    /\ pc = "start"
    /\ call = "download_musicxml"
    /\ Respond(download_musicxml(files, args.result_id))

\* process_score called as a function.
ProcessScore ==
    /\ pc = "start"
    /\ call = "process_score"
    /\ \E outcome \in AudiverisOutcomes, hex \in Uuids :
           Respond(process_score(files, settings, args.file, args.page,
                                 args.processing_mode, args.advanced_options,
                                 outcome, hex))

\* A request answered by the application that create_app returns.
HttpRequest ==
    /\ pc = "start"
    /\ call = "create_app"
    /\ \E outcome \in AudiverisOutcomes, hex \in Uuids :
           Respond(Serve(files, settings, args, outcome, hex))

NextOmr ==
    \/ RunOmr
    \/ ResolveStored
    \/ ResolveMusicxmlPath
    \/ DownloadMusicxml
    \/ ProcessScore
    \/ HttpRequest

SpecOmr == InitOmr /\ [][NextOmr]_vars

----------------------------------------------------------------------------
(* Properties.  The definitions below describe masks and selections        *)
(* without using the operators that model the code.                        *)

MaskHasPixel == \E c \in Cols : \E y \in 0 .. height - 1 : y \in mask[c]

\* The maximal vertical runs of a column, as <<first row, last row>>.
RunsOf(column) ==
    {r \in column \X column :
        /\ r[1] <= r[2]
        /\ \A y \in r[1] .. r[2] : y \in column
        /\ r[1] - 1 \notin column
        /\ r[2] + 1 \notin column}

\* The midpoint of a run; a midpoint between two rows is the even one.
MidOf(r) ==
    CHOOSE m \in r[1] .. r[2] :
        \/ 2 * m = r[1] + r[2]
        \/ (2 * m - (r[1] + r[2]) \in {-1, 1} /\ m % 2 = 0)

CandidatesOf(c) == {MidOf(r) : r \in RunsOf(mask[c])}

\* Column c has at least expected_lines candidate centres.
IsAnchor(c) == Cardinality(RunsOf(mask[c])) >= expected_lines

\* compute_staff_line_paths has returned normally.
TraceReturned ==
    /\ call = "rectify_staff_region"
    /\ \/ pc \in {"traced", "referenced", "mapped"}
       \/ (pc = "failed" /\ err = "InvalidInput")

(* C1: whenever compute_staff_line_paths returns normally, the result has  *)
(* exactly expected_lines (>= 1) rows and one column per mask column, and  *)
(* every entry is a defined number (no NaN); without smoothing every entry *)
(* is a candidate centre of its own column (traced), of a column to its    *)
(* left (propagated) or of a column to its right (interpolated).           *)
C1_TracedMatrixComplete ==
    TraceReturned =>
        /\ expected_lines >= 1
        /\ DOMAIN line_paths = 1 .. expected_lines
        /\ \A i \in 1 .. expected_lines :
               /\ DOMAIN line_paths[i] = Cols
               /\ \A c \in Cols :
                      /\ line_paths[i][c][2] > 0
                      /\ smoothing_window <= 1 =>
                             \E c2 \in Cols : \E v \in CandidatesOf(c2) :
                                 line_paths[i][c] = <<v, 1>>

\* A trace that returned after filling a leading gap and smoothing.
C1_Witness ==
    /\ pc = "traced"
    /\ ~IsAnchor(0)
    /\ smoothing_window > 1
    /\ expected_lines = 2

(* C2: compute_staff_line_paths fails with MaskEmpty exactly when the mask *)
(* has no foreground pixel, and with InsufficientStaffLines exactly when   *)
(* the mask has foreground but no column has at least expected_lines       *)
(* vertical runs; a failed call returns no line paths.  The two failures   *)
(* are the two values of err, raised under conditions that exclude each   *)
(* other.                                                                  *)
C2_TraceFailures ==
    LET noAnchor == MaskHasPixel /\ \A c \in Cols : ~IsAnchor(c)
    IN  /\ (pc # "start" /\ ~MaskHasPixel) => (pc = "failed" /\ err = "MaskEmpty")
        /\ err = "MaskEmpty" => (pc = "failed" /\ ~MaskHasPixel)
        /\ (pc \notin {"start", "scan"} /\ noAnchor) =>
               (pc = "failed" /\ err = "InsufficientStaffLines")
        /\ err = "InsufficientStaffLines" => (pc = "failed" /\ noAnchor)
        /\ err \in {"MaskEmpty", "InsufficientStaffLines"} =>
               (~TraceReturned /\ reference = NoReference /\ map_y = <<>>)

\* A mask with foreground in the second column only fails to anchor.
C2_Witness ==
    /\ err = "InsufficientStaffLines"
    /\ mask[0] = {}
    /\ expected_lines = 2

\* The subsets of expected_lines candidates of column c.
SubsetsOf(c) ==
    {S \in SUBSET CandidatesOf(c) : Cardinality(S) = expected_lines}

\* A set of integers as the ascending list of its elements.
AscList(S) ==
    CHOOSE f \in [1 .. Cardinality(S) -> S] :
        \A i, j \in 1 .. Cardinality(S) : i < j => f[i] < f[j]

RECURSIVE SumSquares(_, _, _)
SumSquares(a, b, i) ==
    IF i = 0 THEN 0
    ELSE (a[i] - b[i]) * (a[i] - b[i]) + SumSquares(a, b, i - 1)

\* Sum of squared differences of a subset to the previous selection.
DeviationOf(S, prev) ==
    IF prev = <<>> THEN 0 ELSE SumSquares(AscList(S), prev, Cardinality(S))

\* S comes before T in the enumeration order of combinations.
EnumeratedBefore(S, T) ==
    LET a == AscList(S)
        b == AscList(T)
    IN  \E i \in 1 .. Cardinality(S) :
            a[i] < b[i] /\ \A j \in 1 .. i - 1 : a[j] = b[j]

\* The subset of least deviation, the first enumerated among equals.
LeastDeviation(c, prev) ==
    CHOOSE S \in SubsetsOf(c) :
        \A T \in SubsetsOf(c) \ {S} :
            \/ DeviationOf(S, prev) < DeviationOf(T, prev)
            \/ (DeviationOf(S, prev) = DeviationOf(T, prev)
                /\ EnumeratedBefore(S, T))

(* C3: in the column scan, a column with at least expected_lines candidate *)
(* centres is written with the ascending subset of expected_lines          *)
(* candidates whose sum of squared differences to the previous selection   *)
(* is least, the first in enumeration order among equals; with no previous *)
(* selection that is the expected_lines topmost candidates; the written    *)
(* subset becomes the previous selection.                                  *)
C3_ScanSelectsLeastDeviation ==
    [][(pc = "scan" /\ x < MaxWidth /\ IsAnchor(x)) =>
          LET S == LeastDeviation(x, previous)
              a == AscList(S)
          IN  /\ \A i \in 1 .. expected_lines : line_paths'[i][x] = <<a[i], 1>>
              /\ \A i \in 1 .. expected_lines : previous'[i] = a[i]
              /\ Len(previous') = expected_lines
              /\ previous = <<>> =>
                     \A u \in S : \A v \in CandidatesOf(x) \ S : u < v]_vars

\* The scan has just chosen, by deviation, a subset other than the topmost
\* candidates of a column that follows an anchor.
C3_Witness ==
    /\ pc = "scan"
    /\ x >= 2
    /\ IsAnchor(x - 2)
    /\ Cardinality(CandidatesOf(x - 1)) > expected_lines
    /\ \E v \in CandidatesOf(x - 1) :
           /\ \A i \in 1 .. expected_lines : previous[i] # v
           /\ v < previous[1]

\* The columns the scan has passed, while the matrix is not yet smoothed.
ScannedColumns ==
    IF pc = "scan" THEN 0 .. x - 1
    ELSE IF pc = "filled" THEN Cols
    ELSE {}

\* The nearest column left of c with at least expected_lines candidates.
NearestAnchorLeft(c) ==
    CHOOSE a \in 0 .. c - 1 :
        IsAnchor(a) /\ \A b \in a + 1 .. c - 1 : ~IsAnchor(b)

(* C4: before smoothing, every scanned column that has fewer than          *)
(* expected_lines candidates and lies right of a column with at least      *)
(* expected_lines candidates holds exactly the positions written at the    *)
(* nearest such column to its left; and scanning a column with fewer than  *)
(* expected_lines candidates leaves the previous selection unchanged.      *)
C4_PropagatesPrevious ==
    /\ [](\A c \in ScannedColumns :
              (~IsAnchor(c) /\ \E a \in 0 .. c - 1 : IsAnchor(a)) =>
                  \A i \in 1 .. expected_lines :
                      /\ line_paths[i][c] = line_paths[i][NearestAnchorLeft(c)]
                      /\ line_paths[i][c][2] = 1)
    /\ [][(pc = "scan" /\ x < MaxWidth /\ ~IsAnchor(x)) =>
              previous' = previous]_vars

\* A column with a single run after a column with two, both lines expected.
C4_Witness ==
    /\ pc = "filled"
    /\ expected_lines = 2
    /\ IsAnchor(0)
    /\ Cardinality(RunsOf(mask[1])) = 1

\* The k-th smallest value (k from 1) of a family f of numbers, by counting.
KthSmallest(f, k) ==
    CHOOSE v \in {f[d] : d \in DOMAIN f} :
        /\ Cardinality({d \in DOMAIN f : RLt(f[d], v)}) < k
        /\ Cardinality({d \in DOMAIN f : RLe(f[d], v)}) >= k

\* The median of a non-empty family of numbers.
MedianOf(f) ==
    LET n == Cardinality(DOMAIN f)
    IN  IF n % 2 = 1 THEN KthSmallest(f, (n + 1) \div 2)
        ELSE RMul(RAdd(KthSmallest(f, n \div 2), KthSmallest(f, n \div 2 + 1)),
                  <<1, 2>>)

\* |line_paths[i+1][c] - line_paths[i][c]| over all adjacent row pairs i and
\* all columns c.
VerticalGaps ==
    [p \in (1 .. Len(line_paths) - 1) \X Cols |->
        RAbs(RSub(line_paths[p[1] + 1][p[2]], line_paths[p[1]][p[2]]))]

(* C5: for line_paths of at least 2 rows compute_staff_reference returns;  *)
(* line_spacing is the median of the absolute vertical gaps over all       *)
(* adjacent row pairs and all columns, and there is one canonical position *)
(* per row, canonical_positions[i] = median(first row) + i * line_spacing  *)
(* (i from 0).                                                             *)
C5_ReferenceIsMedianGrid ==
    /\ (pc = "failed" /\ call = "compute_staff_reference") => Len(line_paths) < 2
    /\ pc = "referenced" =>
           /\ Len(line_paths) >= 2
           /\ reference.line_spacing = MedianOf(VerticalGaps)
           /\ Len(reference.canonical_positions) = Len(line_paths)
           /\ \A i \in 1 .. Len(line_paths) :
                  reference.canonical_positions[i] =
                      RAdd(MedianOf(line_paths[1]),
                           RMul(<<i - 1, 1>>, reference.line_spacing))

\* A reference of three rows whose spacing is the mean of the two middle gaps.
C5_Witness ==
    /\ pc = "referenced"
    /\ Len(line_paths) = 3
    /\ reference.line_spacing[2] = 2

\* Canonical positions rise by exactly line_spacing from one row to the next.
EvenlySpaced ==
    \A i \in 1 .. Len(reference.canonical_positions) - 1 :
        reference.canonical_positions[i + 1] =
            RAdd(reference.canonical_positions[i], reference.line_spacing)

StrictlyIncreasing ==
    \A i \in 1 .. Len(reference.canonical_positions) - 1 :
        RLt(reference.canonical_positions[i], reference.canonical_positions[i + 1])

\* Adjacent rows of line_paths differ at every column.
RowsApart == \A p \in DOMAIN VerticalGaps : RLt(<<0, 1>>, VerticalGaps[p])

(* C6, as claimed: every StaffReference returned by compute_staff_reference *)
(* has line_spacing > 0 and canonical positions strictly increasing, each  *)
(* exactly line_spacing above the previous one.                            *)
C6_AsClaimed ==
    pc = "referenced" =>
        /\ RLt(<<0, 1>>, reference.line_spacing)
        /\ EvenlySpaced
        /\ StrictlyIncreasing

(* C6, amended: every StaffReference returned by compute_staff_reference   *)
(* has line_spacing >= 0 and canonical positions each exactly line_spacing *)
(* above the previous one; line_spacing > 0 and the positions are strictly *)
(* increasing whenever adjacent rows of line_paths differ at every column. *)
C6_SpacingNonNegative ==
    pc = "referenced" =>
        /\ RLe(<<0, 1>>, reference.line_spacing)
        /\ EvenlySpaced
        /\ RowsApart =>
               (RLt(<<0, 1>>, reference.line_spacing) /\ StrictlyIncreasing)

\* A reference built from three rows that differ at every column.
C6_Witness ==
    /\ pc = "referenced"
    /\ Len(line_paths) = 3
    /\ RowsApart
    /\ RLt(<<0, 1>>, reference.line_spacing)

(* C7: compute_staff_reference fails with InvalidInput whenever line_paths *)
(* has fewer than 2 rows and builds no reference; so rectify_staff_region  *)
(* (and rectify_staff_region_with_mask, which runs the same steps) called  *)
(* with expected_lines = 1 on a mask that has foreground ends in           *)
(* InvalidInput and never builds a rectification map.                      *)
C7_SingleLineIsInvalidInput ==
    /\ [][(pc = "traced" /\ Len(line_paths) < 2) =>
              (pc' = "failed" /\ err' = "InvalidInput"
               /\ reference' = NoReference)]_vars
    /\ []((call = "rectify_staff_region" /\ expected_lines = 1 /\ MaskHasPixel) =>
              \/ pc \in {"start", "scan", "filled", "traced"}
              \/ (pc = "failed" /\ err = "InvalidInput" /\ map_y = <<>>))

\* A single line was traced and smoothed, then the reference was refused.
C7_Witness ==
    /\ pc = "failed"
    /\ err = "InvalidInput"
    /\ expected_lines = 1
    /\ smoothing_window > 1
    /\ Len(line_paths) = 1

\* Row y of the output lies in the bracket [canonical i, canonical i+1).
InBracket(y, i) ==
    /\ RLe(reference.canonical_positions[i], <<y, 1>>)
    /\ RLt(<<y, 1>>, reference.canonical_positions[i + 1])

(* C8: in the map built by _build_rectification_map, for every output      *)
(* pixel (y, x) the source column is x; if c[i] <= y < c[i+1] then the     *)
(* source row is p[i][x] + t * (p[i+1][x] - p[i][x]) with                  *)
(* t = (y - c[i]) / (c[i+1] - c[i]); and a row at c[i] samples p[i][x].    *)
C8_MapInterpolatesBrackets ==
    pc = "mapped" =>
        \A y \in 0 .. height - 1 : \A c \in Cols :
            /\ map_x[y][c] = c
            /\ \A i \in 1 .. Len(line_paths) - 1 :
                   InBracket(y, i) =>
                       LET ci == reference.canonical_positions[i]
                           cj == reference.canonical_positions[i + 1]
                           t == RDiv(RSub(<<y, 1>>, ci), RSub(cj, ci))
                       IN  map_y[y][c] =
                               RAdd(line_paths[i][c],
                                    RMul(t, RSub(line_paths[i + 1][c],
                                                 line_paths[i][c])))
            /\ \A i \in 1 .. Len(line_paths) :
                   reference.canonical_positions[i] = <<y, 1>> =>
                       map_y[y][c] = line_paths[i][c]

\* A map over a warped staff: a row strictly inside a bracket whose traced
\* bracket has another height than the canonical one.
C8_Witness ==
    /\ pc = "mapped"
    /\ \E y \in 0 .. height - 1 : \E c \in Cols :
           /\ InBracket(y, 1)
           /\ reference.canonical_positions[1] # <<y, 1>>
           /\ RSub(line_paths[2][c], line_paths[1][c]) # reference.line_spacing
           /\ map_y[y][c] # <<y, 1>>

\* The map was built for a staff whose traced curves are constant and equal
\* to their canonical positions.
AlreadyRectified ==
    /\ pc = "mapped"
    /\ \A i \in 1 .. Len(line_paths) : \A c \in Cols :
           line_paths[i][c] = reference.canonical_positions[i]

FirstLine == reference.canonical_positions[1]
LastLine == reference.canonical_positions[Len(reference.canonical_positions)]
AboveStaff == RSub(FirstLine, reference.line_spacing)
BelowStaff == RAdd(LastLine, reference.line_spacing)

(* C9, as claimed: on an already-rectified region the map sends every      *)
(* output row from one spacing above the first line to one spacing below   *)
(* the last line to itself.                                                *)
C9_AsClaimed ==
    AlreadyRectified =>
        \A y \in 0 .. height - 1 : \A c \in Cols :
            (RLe(AboveStaff, <<y, 1>>) /\ RLe(<<y, 1>>, BelowStaff)) =>
                map_y[y][c] = <<y, 1>>

(* C9, amended: on an already-rectified region the map sends every output  *)
(* row from the first line to the last line to itself, and the rows up to  *)
(* one spacing above the first line (below the last line) too when that    *)
(* margin lies inside the image, that is when the first line is at least   *)
(* one spacing below row 0 (the last line at least one spacing above row   *)
(* height - 1); so the lines keep their canonical positions.               *)
C9_RectifiedRowsFixed ==
    AlreadyRectified =>
        \A y \in 0 .. height - 1 : \A c \in Cols :
            (\/ (RLe(FirstLine, <<y, 1>>) /\ RLe(<<y, 1>>, LastLine))
             \/ (RLe(<<0, 1>>, AboveStaff) /\ RLe(AboveStaff, <<y, 1>>)
                 /\ RLt(<<y, 1>>, FirstLine))
             \/ (RLe(BelowStaff, <<height - 1, 1>>) /\ RLe(<<y, 1>>, BelowStaff)
                 /\ RLt(LastLine, <<y, 1>>)))
            => map_y[y][c] = <<y, 1>>

\* An already-rectified staff with both margins inside the image.
C9_Witness ==
    /\ AlreadyRectified
    /\ smoothing_window > 1
    /\ RLe(<<0, 1>>, AboveStaff)
    /\ RLe(BelowStaff, <<height - 1, 1>>)
    /\ RLt(<<0, 1>>, reference.line_spacing)

\* The systems laid end to end.
RECURSIVE Flattened(_)
Flattened(sys) ==
    IF sys = <<>> THEN <<>> ELSE Head(sys) \o Flattened(Tail(sys))

\* The order of the input by (top, position in the input).
TopOrder ==
    CHOOSE f \in [1 .. Len(regions) -> 1 .. Len(regions)] :
        /\ \A i, j \in 1 .. Len(regions) : i # j => f[i] # f[j]
        /\ \A i \in 1 .. Len(regions) - 1 :
               \/ regions[f[i]].top < regions[f[i + 1]].top
               \/ (regions[f[i]].top = regions[f[i + 1]].top /\ f[i] < f[i + 1])

\* The gap from the bottom of region a to the top of region b.
GapBetween(a, b) == b.top - a.bottom

(* C10: group_staff_regions returns the partition of the top-sorted input  *)
(* into maximal consecutive runs: the systems laid end to end are the      *)
(* input sorted by top (regions of equal top in input order), so every     *)
(* input region is in exactly one system; no system is empty; inside a     *)
(* system each consecutive gap (next.top - previous.bottom) is at most     *)
(* max_vertical_gap; a new system starts exactly where that gap exceeds    *)
(* max_vertical_gap; empty input yields an empty list.                     *)
C10_SystemsAreMaximalRuns ==
    (pc = "returned" /\ call = "group_staff_regions") =>
        LET flat == Flattened(systems)
        IN  /\ regions = <<>> => systems = <<>>
            /\ Len(flat) = Len(regions)
            /\ \A k \in 1 .. Len(regions) : flat[k] = regions[TopOrder[k]]
            /\ \A k \in 1 .. Len(flat) - 1 : flat[k].top <= flat[k + 1].top
            /\ \A n \in 1 .. Len(systems) :
                   /\ systems[n] # <<>>
                   /\ \A k \in 1 .. Len(systems[n]) - 1 :
                          GapBetween(systems[n][k], systems[n][k + 1])
                              <= max_vertical_gap
            /\ \A n \in 1 .. Len(systems) - 1 :
                   GapBetween(systems[n][Len(systems[n])], systems[n + 1][1])
                       > max_vertical_gap

\* Three regions in two systems, two of them exactly max_vertical_gap apart,
\* passed out of order.
C10_Witness ==
    /\ pc = "returned"
    /\ Len(systems) = 2
    /\ Len(systems[1]) = 2
    /\ GapBetween(systems[1][1], systems[1][2]) = max_vertical_gap
    /\ regions[1].top > regions[2].top

----------------------------------------------------------------------------
(* Claims about find_staff_regions.                                        *)

RegionsReturned == call = "find_staff_regions" /\ pc = "returned"

PageRows == buffers[image].shape[1]

\* The box of a labelled component, as the half-open ranges of its rows
\* and columns.
BoxOf(st) ==
    [top |-> st.y, bottom |-> st.y + st.h, left |-> st.x, right |-> st.x + st.w]

\* The whole number of rows nearest to rows * ratio, a half going to the
\* even count.
WholeRows(rows, ratio) ==
    LET dist(k) == Abs(k * ratio[2] - rows * ratio[1])
    IN  CHOOSE k \in 0 .. rows :
            \A j \in 0 .. rows :
                \/ dist(k) < dist(j)
                \/ dist(k) = dist(j) /\ (j = k \/ k % 2 = 0)

\* The component lies entirely within the top ignore_top_ratio fraction of
\* the page: its last row ends at or above rows * ratio.
InTopFraction(st) ==
    (st.y + st.h) * args.ignore_top_ratio[2] <= PageRows * args.ignore_top_ratio[1]

\* The component lies entirely within the top rows, the fraction being
\* taken in whole rows.
InTopRows(st) == st.y + st.h <= WholeRows(PageRows, args.ignore_top_ratio)

KeyInOrder(a, b) == a.top < b.top \/ (a.top = b.top /\ a.left <= b.left)

\* The returned list is exactly the boxes of the labels in Kept, each once,
\* every one a proper box, in ascending (top, left) order.
ReturnsExactly(Kept) ==
    /\ Len(result) = Cardinality(Kept)
    /\ \A label \in Kept : \E i \in DOMAIN result : result[i] = BoxOf(locals.stats[label])
    /\ \A i \in DOMAIN result :
           /\ \E label \in Kept : result[i] = BoxOf(locals.stats[label])
           /\ result[i].top < result[i].bottom
           /\ result[i].left < result[i].right
    /\ \A i, j \in DOMAIN result : i < j => KeyInOrder(result[i], result[j])

\* C11 as stated: the returned regions are exactly the components of area
\* >= min_area that do not lie entirely within the top ignore_top_ratio
\* fraction of the page, as proper boxes sorted by (top, left).
C11_AsClaimed ==
    RegionsReturned =>
        ReturnsExactly({label \in DOMAIN locals.stats :
                           /\ locals.stats[label].area >= args.min_area
                           /\ ~InTopFraction(locals.stats[label])})

\* C11, amended: the returned regions are exactly the components of area
\* >= min_area that do not lie entirely within the top
\* round(height * ignore_top_ratio) rows of the page; each has top < bottom
\* and left < right, and the list is sorted ascending by (top, left).
C11_RegionsAreQualifyingComponents ==
    RegionsReturned =>
        ReturnsExactly({label \in DOMAIN locals.stats :
                           /\ locals.stats[label].area >= args.min_area
                           /\ ~InTopRows(locals.stats[label])})

\* Two regions with the same top were labelled right one first, and a third
\* component was discarded.
C11_Witness ==
    /\ RegionsReturned
    /\ Len(result) >= 2
    /\ Len(locals.stats) > Len(result)
    /\ \E a, b \in DOMAIN locals.stats :
           /\ a < b
           /\ locals.stats[a].y = locals.stats[b].y
           /\ locals.stats[a].x > locals.stats[b].x
           /\ \E i \in DOMAIN result : result[i] = BoxOf(locals.stats[a])
           /\ \E i \in DOMAIN result : result[i] = BoxOf(locals.stats[b])

----------------------------------------------------------------------------
(* Claims about estimate_page_margins and detect_header_regions.           *)

MarginsReturned == call = "estimate_page_margins" /\ pc = "returned"

PageCols == buffers[image].shape[2]

\* The pixel is darker than the threshold.
Dark(y, c) == buffers[image].data[<<y, c>>] < args.threshold

RowHasContent(y) == \E c \in 0 .. PageCols - 1 : Dark(y, c)
ColHasContent(c) == \E y \in 0 .. PageRows - 1 : Dark(y, c)

\* C12: estimate_page_margins returns (top, bottom, left, right) with top the
\* first content row, bottom = height - 1 - last content row, left the first
\* content column and right = width - 1 - last content column; when no
\* pixel is darker than the threshold it returns (height, height, width,
\* width).
C12_MarginsReachContent ==
    MarginsReturned =>
        IF \E y \in 0 .. PageRows - 1 : RowHasContent(y)
        THEN LET first_row == result[1]
                 last_row == PageRows - 1 - result[2]
                 first_col == result[3]
                 last_col == PageCols - 1 - result[4]
             IN  /\ first_row \in 0 .. PageRows - 1 /\ RowHasContent(first_row)
                 /\ \A y \in 0 .. first_row - 1 : ~RowHasContent(y)
                 /\ last_row \in 0 .. PageRows - 1 /\ RowHasContent(last_row)
                 /\ \A y \in last_row + 1 .. PageRows - 1 : ~RowHasContent(y)
                 /\ first_col \in 0 .. PageCols - 1 /\ ColHasContent(first_col)
                 /\ \A c \in 0 .. first_col - 1 : ~ColHasContent(c)
                 /\ last_col \in 0 .. PageCols - 1 /\ ColHasContent(last_col)
                 /\ \A c \in last_col + 1 .. PageCols - 1 : ~ColHasContent(c)
        ELSE result = <<PageRows, PageRows, PageCols, PageCols>>

\* Content with blank rows above and below and a blank column at the left.
C12_Witness ==
    /\ MarginsReturned
    /\ \E y \in 0 .. PageRows - 1 : RowHasContent(y)
    /\ result[1] > 0
    /\ result[2] > 0
    /\ result[3] > 0
    /\ result[4] = 0

HeadersReturned == call = "detect_header_regions" /\ pc = "returned"

\* bbox = (left, top, right, bottom) of a labelled component, right and
\* bottom exclusive.
BboxOf(st) == <<st.x, st.y, st.x + st.w, st.y + st.h>>

\* Foreground pixels of the header band inside the box, and the cells of
\* the box.
ForegroundIn(bbox) ==
    Cardinality({p \in locals.header_band : /\ bbox[1] <= p[2] /\ p[2] < bbox[3]
                                            /\ bbox[2] <= p[1] /\ p[1] < bbox[4]})
CellsOf(bbox) == (bbox[3] - bbox[1]) * (bbox[4] - bbox[2])

\* The fraction n/d is at least the fraction r.
AtLeast(n, d, r) == n * r[2] >= r[1] * d

\* C13: every returned HeaderRegion has as confidence the fraction of
\* foreground pixels inside its bounding box, with min_confidence <=
\* confidence <= 1; every component of the header band whose confidence is
\* at least min_confidence is returned (once); the list is sorted ascending
\* by the top of the bounding box.
C13_HeadersAreConfidentComponents ==
    HeadersReturned =>
        LET Confident == {label \in DOMAIN locals.stats :
                             LET bbox == BboxOf(locals.stats[label])
                             IN  AtLeast(ForegroundIn(bbox), CellsOf(bbox),
                                         args.min_confidence)}
        IN  /\ Len(result) = Cardinality(Confident)
            /\ \A label \in Confident :
                   \E i \in DOMAIN result : result[i].bbox = BboxOf(locals.stats[label])
            /\ \A i \in DOMAIN result :
                   LET bbox == result[i].bbox
                       c == result[i].confidence
                   IN  /\ \E label \in Confident : bbox = BboxOf(locals.stats[label])
                       /\ c[2] > 0
                       /\ c[1] * CellsOf(bbox) = ForegroundIn(bbox) * c[2]
                       /\ AtLeast(c[1], c[2], args.min_confidence)
                       /\ c[1] <= c[2]
            /\ \A i, j \in DOMAIN result :
                   i < j => result[i].bbox[2] <= result[j].bbox[2]

\* Two headers are returned, the lower one labelled first, each with a
\* confidence equal to a min_confidence of 1.
C13_Witness ==
    /\ HeadersReturned
    /\ Len(result) = 2
    /\ result[1].bbox[2] < result[2].bbox[2]
    /\ locals.stats[1].y > locals.stats[2].y
    /\ args.min_confidence = <<1, 1>>

\* C14 as stated: only the top max_header_ratio fraction of the page height
\* (in whole rows) is analysed, so every returned box ends inside it, and
\* when that fraction is zero rows high the result is the empty list and
\* no error is raised.
C14_AsClaimed ==
    HeadersReturned =>
        LET band_rows == WholeRows(PageRows, args.max_header_ratio)
        IN  /\ \A i \in DOMAIN result : result[i].bbox[4] <= band_rows
            /\ band_rows = 0 => (result = <<>> /\ err = "")

----------------------------------------------------------------------------
(* Claims about preprocess/normalize.py.                                   *)

NormalizeCalled == call = "normalize_image_dpi"
NormalizeReturned == NormalizeCalled /\ pc \in {"returned", "written"}

\* The call is over and gave the caller InvalidConfiguration and no image.
FailedWithInvalidConfiguration ==
    /\ pc = "failed"
    /\ err = "InvalidConfiguration"
    /\ result = 0
    /\ Len(buffers) = 1

\* C15: normalize_image_dpi fails with InvalidConfiguration whenever
\* current_dpi <= 0 or target_dpi <= 0, also when the two are equal, and
\* then returns no image.
C15_NonPositiveDpiRejected ==
    (NormalizeCalled /\ pc # "start"
        /\ (args.current_dpi < 1 \/ args.target_dpi < 1))
        => FailedWithInvalidConfiguration

\* The call failed on two equal values that are not positive.
C15_Witness ==
    /\ NormalizeCalled
    /\ pc = "failed"
    /\ args.current_dpi = args.target_dpi
    /\ args.target_dpi < 1

SameDpi == args.current_dpi = args.target_dpi /\ args.target_dpi > 0

\* C16: with target_dpi = current_dpi > 0 the call returns a buffer other
\* than the input, of the same dimensions and pixel content; the call
\* leaves the input unchanged, and so does a later write to the returned
\* buffer.
C16_EqualDpiReturnsCopy ==
    [][(NormalizeCalled /\ SameDpi) =>
          /\ pc = "start" /\ pc' # "start" =>
                 /\ pc' = "returned"
                 /\ result' # image
                 /\ buffers'[result'].shape = buffers[image].shape
                 /\ buffers'[result'].data = buffers[image].data
                 /\ buffers'[image] = buffers[image]
          /\ pc = "returned" /\ pc' = "written" =>
                 buffers'[image] = buffers[image]]_vars

\* The caller changed a pixel of the returned copy and the input still holds
\* its old value there.
C16_Witness ==
    /\ NormalizeCalled
    /\ SameDpi
    /\ pc = "written"
    /\ buffers[result].shape = buffers[image].shape
    /\ buffers[result].data # buffers[image].data

\* The integer nearest to n / d (n >= 0, d > 0), a half going to the even
\* neighbour.
NearestInt(n, d) ==
    CHOOSE k \in 0 .. n :
        \A j \in 0 .. n :
            \/ Abs(k * d - n) < Abs(j * d - n)
            \/ Abs(k * d - n) = Abs(j * d - n) /\ (j = k \/ k % 2 = 0)

AtLeastOne(k) == IF k < 1 THEN 1 ELSE k

\* The size the rescaling from current to target DPI gives a side.
Rescaled(side, current, target) == AtLeastOne(NearestInt(side * target, current))

\* C17: for positive current_dpi # target_dpi the returned image has width
\* max(1, round(w * target_dpi / current_dpi)) and height
\* max(1, round(h * target_dpi / current_dpi)), neither of them 0.
C17_RescaledDimensions ==
    (NormalizeReturned /\ pc = "returned" /\ args.current_dpi > 0
        /\ args.target_dpi > 0 /\ args.current_dpi # args.target_dpi)
        => LET shape == buffers[result].shape
               h == buffers[image].shape[1]
               w == buffers[image].shape[2]
           IN  /\ shape[2] = Rescaled(w, args.current_dpi, args.target_dpi)
               /\ shape[1] = Rescaled(h, args.current_dpi, args.target_dpi)
               /\ shape[1] > 0
               /\ shape[2] > 0

\* A width scaled to exactly half a pixel came out as 1, and a height scaled
\* to a whole number of pixels.
C17_Witness ==
    /\ NormalizeCalled
    /\ pc = "returned"
    /\ args.current_dpi > 0
    /\ 2 * buffers[image].shape[2] * args.target_dpi = args.current_dpi
    /\ buffers[result].shape[2] = 1
    /\ buffers[image].shape[1] = 2
    /\ buffers[result].shape[1] = 1

BinarizeCalled == call = "adaptive_binarize"

IsEven(n) == \E k \in -Abs(n) .. Abs(n) : n = 2 * k

\* C18: adaptive_binarize fails with InvalidConfiguration for every even
\* block_size, positive, zero or negative, and returns no image then.
C18_EvenBlockSizeRejected ==
    (BinarizeCalled /\ pc # "start" /\ IsEven(args.block_size))
        => FailedWithInvalidConfiguration

\* The call failed on an even block_size that is not positive.
C18_Witness ==
    /\ BinarizeCalled
    /\ pc = "failed"
    /\ err = "InvalidConfiguration"
    /\ args.block_size < 1

PipelineCalled == call = "preprocess_pipeline" /\ args.config # None

\* adaptive_block_size even or not positive, or target_dpi not positive.
InvalidConfig(config) ==
    \/ IsEven(config.adaptive_block_size)
    \/ config.adaptive_block_size < 1
    \/ config.target_dpi < 1

\* C19 as stated: with an invalid PreprocessConfig the pipeline fails before
\* any stage has run: no stage is ever recorded, and the call can only be
\* at its start or failed.
C19_AsClaimed ==
    (PipelineCalled /\ InvalidConfig(args.config))
        => /\ locals.stages = <<>>
           /\ pc \in {"start", "failed"}

\* C20 as stated: once the DPI stage has run on a page whose reported DPI
\* differs from config.target_dpi, its output has the input dimensions
\* scaled by target_dpi / reported DPI.
C20_AsClaimed ==
    (PipelineCalled /\ pc = "deskew" /\ locals.current_dpi # args.config.target_dpi)
        => LET shape == buffers[locals.last].shape
               h == buffers[image].shape[1]
               w == buffers[image].shape[2]
           IN  /\ shape[1] = Rescaled(h, locals.current_dpi, args.config.target_dpi)
               /\ shape[2] = Rescaled(w, locals.current_dpi, args.config.target_dpi)

\* A step of normalize_image_dpi, adaptive_binarize or a pipeline stage (the
\* caller's own write into a returned array is not one).
StageStep == pc \notin {"returned", "written"} /\ pc' # pc

FirstAnchor ==
    CHOOSE a \in Cols : IsAnchor(a) /\ \A b \in 0 .. a - 1 : ~IsAnchor(b)

\* The columns of row i that hold no number.
UndefinedColumns(i) == {c \in Cols : IsNaN(line_paths[i][c])}

\* The scan is over and has found an anchor.
ScanFoundAnchor == pc = "scan" /\ x = MaxWidth /\ \E c \in Cols : IsAnchor(c)

(* C26: once the scan has passed an anchor the scanned columns still       *)
(* undefined are, in every row, exactly the columns left of the first      *)
(* anchor; after a scan that found an anchor the gap filling returns       *)
(* every row with those columns set to the row's value at the first anchor *)
(* column and the other columns as they were; UnableToTrace never occurs.  *)
C26_UndefinedColumnsArePrefix ==
    /\ [](pc = "scan" =>
              /\ previous # <<>> <=> \E a \in 0 .. x - 1 : IsAnchor(a)
              /\ previous # <<>> =>
                     \A i \in 1 .. expected_lines :
                         UndefinedColumns(i) \cap (0 .. x - 1)
                             = 0 .. FirstAnchor - 1)
    /\ [][ScanFoundAnchor =>
              /\ pc' = "filled"
              /\ \A i \in 1 .. expected_lines : \A c \in Cols :
                     /\ line_paths'[i][c][2] = 1
                     /\ line_paths'[i][c] =
                            IF c < FirstAnchor THEN line_paths[i][FirstAnchor]
                            ELSE line_paths[i][c]]_vars
    /\ [](err # "UnableToTrace")

\* The gap filling gave the first column the positions of the second, the
\* first anchor.
C26_Witness ==
    /\ pc = "filled"
    /\ expected_lines = 2
    /\ FirstAnchor = 1
    /\ \A i \in 1 .. 2 : line_paths[i][0] = line_paths[i][1]
    /\ line_paths[1][1] # line_paths[2][1]

\* The first and the last traced position at column c.
FirstTraced(c) == line_paths[1][c]
LastTraced(c) == line_paths[Len(line_paths)][c]

\* The source row of output row y when the bracket [dst, dst + spacing] is
\* mapped onto [src_start, src_end].
Through(y, dst, src_start, src_end) ==
    RAdd(src_start,
         RMul(RDiv(RSub(<<y, 1>>, dst), reference.line_spacing),
              RSub(src_end, src_start)))

\* Every output row outside the canonical lines is mapped through the
\* brackets that end at top(c) above and at bottom(c) below the traced lines.
OuterRowsThrough(top(_), bottom(_)) ==
    \A y \in 0 .. height - 1 : \A c \in Cols :
        /\ RLt(<<y, 1>>, FirstLine) =>
               map_y[y][c] = Through(y, AboveStaff, top(c), FirstTraced(c))
        /\ RLt(LastLine, <<y, 1>>) =>
               map_y[y][c] = Through(y, LastLine, LastTraced(c), bottom(c))

OneSpacingAbove(c) == RSub(FirstTraced(c), reference.line_spacing)
OneSpacingBelow(c) == RAdd(LastTraced(c), reference.line_spacing)

(* C27, as claimed: an output row above the first canonical line (below    *)
(* the last) is mapped through the canonical bracket reaching one spacing  *)
(* beyond that line onto the traced bracket reaching exactly one spacing   *)
(* above the first traced line (below the last traced line).               *)
C27_AsClaimed ==
    pc = "mapped" => OuterRowsThrough(OneSpacingAbove, OneSpacingBelow)

ClampedAbove(c) == RMax(<<0, 1>>, OneSpacingAbove(c))
ClampedBelow(c) == RMin(<<height - 1, 1>>, OneSpacingBelow(c))

(* C27, amended: the traced bracket reaches one spacing above the first    *)
(* traced line but not above row 0, and one spacing below the last traced  *)
(* line but not below row height - 1; so it reaches exactly one spacing    *)
(* when that position is inside the image.                                 *)
C27_OuterBracketsClamped ==
    pc = "mapped" =>
        /\ RLt(<<0, 1>>, reference.line_spacing)
        /\ OuterRowsThrough(ClampedAbove, ClampedBelow)
        /\ \A c \in Cols :
               /\ RLe(<<0, 1>>, FirstTraced(c))
               /\ RLe(LastTraced(c), <<height - 1, 1>>)

\* A map with rows on both sides of the staff, the upper traced bracket
\* inside the image and the lower one cut at the last row.
C27_Witness ==
    /\ pc = "mapped"
    /\ \E y \in 0 .. height - 1 : \E c \in Cols :
           /\ RLt(<<y, 1>>, FirstLine)
           /\ RLe(<<0, 1>>, OneSpacingAbove(c))
           /\ map_y[y][c] # FirstTraced(c)
    /\ \E y \in 0 .. height - 1 : \E c \in Cols :
           /\ RLt(LastLine, <<y, 1>>)
           /\ RLt(<<height - 1, 1>>, OneSpacingBelow(c))

\* At column c the rows hold numbers that grow strictly with the row index.
RowsAscendAt(c) ==
    \A i \in 1 .. Len(line_paths) - 1 :
        /\ line_paths[i][c][2] > 0
        /\ line_paths[i + 1][c][2] > 0
        /\ RLt(line_paths[i][c], line_paths[i + 1][c])

(* C28: with expected_lines >= 2 the traced positions grow strictly with   *)
(* the line index at every column: at every written column during the     *)
(* scan, at every column after the gap filling, and at every column of the *)
(* matrix compute_staff_line_paths returns, smoothed or not.               *)
C28_TracedLinesNeverTouch ==
    (call = "rectify_staff_region" /\ expected_lines >= 2) =>
        /\ pc = "scan" =>
               \A c \in 0 .. x - 1 :
                   ~IsNaN(line_paths[1][c]) => RowsAscendAt(c)
        /\ (pc = "filled" \/ TraceReturned) => \A c \in Cols : RowsAscendAt(c)

\* Two warped lines were traced and smoothed: they are nearer to each other
\* in the first column than in the second.
C28_Witness ==
    /\ pc = "traced"
    /\ expected_lines = 2
    /\ smoothing_window > 1
    /\ RLt(RSub(line_paths[2][0], line_paths[1][0]),
           RSub(line_paths[2][1], line_paths[1][1]))
    /\ line_paths[1][0] # line_paths[1][1]

\* The orders in which the regions passed can be rearranged: q[k] is the
\* place in regions of the k-th region of the rearranged sequence.
Rearrangements ==
    {q \in [1 .. Len(regions) -> 1 .. Len(regions)] :
        \A i, j \in 1 .. Len(regions) : i # j => q[i] # q[j]}

Rearranged(q) == [k \in 1 .. Len(regions) |-> regions[q[k]]]

\* Regions sharing a top but not a bottom come in the order they had.
KeepsOrderOfEqualTops(q) ==
    \A i, j \in 1 .. Len(regions) :
        (/\ i < j
         /\ regions[q[i]].top = regions[q[j]].top
         /\ regions[q[i]].bottom # regions[q[j]].bottom) => q[i] < q[j]

GroupingReturned == call = "group_staff_regions" /\ pc = "returned"

\* The systems as sets of regions, the order inside and among them dropped.
Membership(sys) ==
    {{sys[n][k] : k \in 1 .. Len(sys[n])} : n \in 1 .. Len(sys)}

(* C29, as claimed: every rearrangement of the regions passed is grouped   *)
(* into systems of the same regions as the regions themselves.             *)
C29_AsClaimed ==
    GroupingReturned =>
        \A q \in Rearrangements :
            Membership(group_staff_regions(Rearranged(q), max_vertical_gap))
                = Membership(systems)

(* C29, amended: every rearrangement of the regions passed that keeps the  *)
(* relative order of regions sharing a top but having different bottoms is *)
(* grouped into the same systems as the regions themselves.                *)
C29_OrderMattersOnlyAmongEqualTops ==
    GroupingReturned =>
        \A q \in Rearrangements :
            KeepsOrderOfEqualTops(q) =>
                group_staff_regions(Rearranged(q), max_vertical_gap) = systems

\* Three regions of different tops, passed bottom-up, came back in two
\* systems.
C29_Witness ==
    /\ GroupingReturned
    /\ Len(regions) = 3
    /\ regions[1].top > regions[2].top
    /\ regions[2].top > regions[3].top
    /\ Len(systems) = 2
    /\ \E q \in Rearrangements : q # [k \in 1 .. 3 |-> k] /\ KeepsOrderOfEqualTops(q)

----------------------------------------------------------------------------
(* C22: the arguments applied by run_omr.                                  *)

\* run_omr has returned a result.
OmrReturned == call = "run_omr" /\ pc = "returned"

NotBlank(text) == \E i \in DOMAIN text : text[i] # " "

\* The list without its blank arguments, the others as they are.
RECURSIVE WithoutBlanks(_)
WithoutBlanks(list) ==
    IF list = <<>> THEN <<>>
    ELSE (IF NotBlank(Head(list)) THEN <<Head(list)>> ELSE <<>>)
         \o WithoutBlanks(Tail(list))

\* A text that is not blank, from its first to its last character that is
\* not a space.
Trimmed(text) ==
    LET inked == {i \in DOMAIN text : text[i] # " "}
    IN  SubSeq(text, CHOOSE i \in inked : \A j \in inked : i <= j,
                     CHOOSE i \in inked : \A j \in inked : i >= j)

\* The texts of a list with one space between each two.
RECURSIVE Spaced(_)
Spaced(list) ==
    IF list = <<>> THEN <<>>
    ELSE IF Len(list) = 1 THEN list[1]
    ELSE Spaced(SubSeq(list, 1, Len(list) - 1)) \o <<" ">> \o list[Len(list)]

\* The preset arguments of the selected mode, then the user's.
GivenArguments ==
    settings.audiveris_processing_presets[result.processing_mode]
        \o args.extra_cli_arguments

\* What run_omr passed on: the command it ran, if it ran one, and the stub
\* it stored, if it stored one, hold the applied arguments.
AppliedArgumentsPassedOn ==
    /\ locals.command # None =>
           locals.command.arguments = result.applied_arguments
    /\ files[result.musicxml_path].kind = "stub" =>
           files[result.musicxml_path].arguments_text
               = Spaced(result.applied_arguments)

----------------------------------------------------------------------------
(* C23: the stub fallback of run_omr.                                      *)

\* run_omr has returned or raised.
OmrEnded == call = "run_omr" /\ pc \in {"returned", "failed"}

\* The call gets as far as Audiveris: the input file exists, the mode is one
\* of the presets, and the page asked for can be taken from the input.
InputUsable ==
    /\ args.input.content # <<>>
    /\ args.processing_mode # <<"experimental">>
    /\ IF args.input.path.suffix = ".PDF"
       THEN /\ args.input.content[1].kind = "pdf"
            /\ \/ args.page = <<>> /\ args.input.content[1].pages >= 1
               \/ args.page # <<>>
                  /\ args.page[1] \in 1 .. args.input.content[1].pages
       ELSE args.page = <<>> \/ args.page[1] >= 1

\* No Audiveris command is configured, or the run of Audiveris ended in one
\* of the ways that _run_with_audiveris reports as OMRProcessingError.
AudiverisUnavailable ==
    \/ settings.audiveris_command = <<>>
    \/ locals.outcome \in {"FileNotFoundError", "TimeoutExpired",
                           "CalledProcessError", "no MusicXML"}

\* The files of results_dir.
ResultFiles(fs) == {p \in DOMAIN fs : p.dir = "results_dir"}

StubStoredAndReturned ==
    /\ pc = "returned"
    /\ err = ""
    /\ result.musicxml_path = ResultPath(result.result_id)
    /\ result.musicxml_path \in DOMAIN files
    /\ result.musicxml_path \notin DOMAIN StoredResults
    /\ files[result.musicxml_path].kind = "stub"

ErrorPropagatedNothingStored ==
    /\ pc = "failed"
    /\ err = "OMRProcessingError"
    /\ ResultFiles(files) = DOMAIN StoredResults
    /\ \A p \in DOMAIN StoredResults : files[p] = StoredResults[p]

\* C23: when run_omr finds no Audiveris command or the Audiveris run fails
\* with OMRProcessingError, then with enable_stub_omr a stub MusicXML is
\* stored in results_dir and returned as a normal result, and without it
\* the OMRProcessingError reaches the caller and results_dir holds what it
\* held before.
C23_StubFallbackOrPropagation ==
    (OmrEnded /\ InputUsable /\ AudiverisUnavailable) =>
        IF settings.enable_stub_omr THEN StubStoredAndReturned
        ELSE ErrorPropagatedNothingStored

\* Audiveris timed out on a page of a PDF and the stub is disabled.
C23_Witness ==
    /\ OmrEnded
    /\ InputUsable
    /\ settings.audiveris_command # <<>>
    /\ locals.outcome = "TimeoutExpired"
    /\ ~settings.enable_stub_omr
    /\ args.input.path.suffix = ".PDF"
    /\ pc = "failed"

----------------------------------------------------------------------------
(* C24: resolve_musicxml_path.                                             *)

\* A-Z, a-z, 0-9, '-' and '_'
SafeCharacters ==
    {"A", "B", "C", "D", "E", "F", "G", "H", "I", "J", "K", "L", "M", "N", "O",
     "P", "Q", "R", "S", "T", "U", "V", "W", "X", "Y", "Z"}
    \cup {"a", "b", "c", "d", "e", "f", "g", "h", "i", "j", "k", "l", "m", "n",
          "o", "p", "q", "r", "s", "t", "u", "v", "w", "x", "y", "z"}
    \cup {"0", "1", "2", "3", "4", "5", "6", "7", "8", "9"}
    \cup {"-", "_"}

\* results_dir/<result_id>.musicxml
InResultsDir(result_id) ==
    [dir |-> "results_dir", stem |-> result_id, suffix |-> ".musicxml"]

\* The identifier is not empty, has only safe characters, and its file exists.
Resolvable(result_id) ==
    /\ result_id # <<>>
    /\ \A i \in DOMAIN result_id : result_id[i] \in SafeCharacters
    /\ \E p \in DOMAIN files : p = InResultsDir(result_id)

\* C24: resolve_musicxml_path returns results_dir/<result_id>.musicxml
\* exactly when result_id is not empty, has only the characters A-Z, a-z,
\* 0-9, '-' and '_' and the file exists, and otherwise raises
\* FileNotFoundError, which the download endpoint answers with 404; the
\* result_id of a successful run_omr resolves to the file the run stored.
C24_ResolvesOnlySafeStoredIdentifiers ==
    /\ (call = "resolve_musicxml_path" /\ pc \in {"returned", "failed"}) =>
           IF Resolvable(args.result_id)
           THEN pc = "returned" /\ result = InResultsDir(args.result_id)
           ELSE pc = "failed" /\ err = "FileNotFoundError"
    /\ (call = "download_musicxml" /\ pc = "responded") =>
           IF Resolvable(args.result_id)
           THEN /\ result.status_code = 200
                /\ result.body.file_path = InResultsDir(args.result_id)
           ELSE result.status_code = 404
    /\ (call = "run_omr" /\ pc = "resolved") =>
           /\ err = ""
           /\ locals.resolved = result.musicxml_path
           /\ locals.resolved = InResultsDir(result.result_id)
           /\ locals.resolved \in DOMAIN files
           /\ locals.resolved \notin DOMAIN StoredResults

\* A file that exists is asked for through an identifier that climbs out of
\* results_dir, and is refused.
C24_Witness ==
    /\ call = "resolve_musicxml_path"
    /\ pc = "failed"
    /\ args.result_id = <<".", ".", "/", "x">>
    /\ \E p \in DOMAIN files : p.stem = args.result_id

----------------------------------------------------------------------------
(* C25: the application built by create_app.                               *)

\* The application has answered the request.
Answered == call = "create_app" /\ pc = "responded"

\* A POST to /api/omr of a named, non-empty file of an allowed extension and
\* at most 10 MB that can be read, no page and no mode given, to a backend
\* without Audiveris that falls back to the stub.
ValidUploadPosted ==
    /\ args.route = "/api/omr"
    /\ args.file.filename.stem # <<" ">>
    /\ args.file.filename.suffix \in {".png", ".PDF"}
    /\ args.file.size \in 1 .. 10 * 1024 * 1024
    /\ args.file.content.kind \in {"png", "pdf"}
    /\ args.page = <<>>
    /\ settings.audiveris_command = <<>>
    /\ settings.enable_stub_omr

\* A GET of /api/files/musicxml/<result_id> for a stored result.
StoredResultAsked ==
    /\ args.route = "/api/files/musicxml/{result_id}"
    /\ args.result_id = <<"a", "Z">>

\* C25 as stated: the application answers a valid upload posted to /api/omr
\* with 200, status 'ok' and a musicxml_url made of the public base URL and
\* /api/files/musicxml/<result_id>, and answers a GET of a stored result
\* with 200 and the content of results_dir/<result_id>.musicxml.
C25_AsClaimed ==
    /\ (Answered /\ ValidUploadPosted) =>
           /\ result.status_code = 200
           /\ result.body.status = "ok"
           /\ settings.public_base_url \in
                  {result.body.musicxml_url.base,
                   result.body.musicxml_url.base \o "/"}
           /\ result.body.musicxml_url.path = "/api/files/musicxml/"
           /\ result.body.musicxml_url.result_id = result.body.result_id
           /\ \E p \in DOMAIN files :
                  /\ p.dir = "results_dir"
                  /\ p.stem = result.body.result_id
                  /\ p \notin DOMAIN StoredResults
    /\ (Answered /\ StoredResultAsked) =>
           /\ result.status_code = 200
           /\ \E p \in DOMAIN files :
                  /\ p.dir = "results_dir"
                  /\ p.stem = args.result_id
                  /\ result.body.content = files[p]

----------------------------------------------------------------------------
(* C30: the temporary files of a request.                                  *)

\* run_omr or process_score has ended, in a result, an error or a response.
RequestEnded ==
    \/ OmrEnded
    \/ call = "process_score" /\ pc = "responded"

\* The files made by tempfile that exist.
TemporaryFiles == {p \in DOMAIN files : p.dir = "tmp"}

\* C30 as stated: when the request has ended, whatever its outcome, no
\* temporary file or directory made while serving it exists (the upload
\* copy, the extracted page, the Audiveris output directory), and the input
\* file of the caller of run_omr is where and what it was.
C30_AsClaimed ==
    /\ RequestEnded => TemporaryFiles = {}
    /\ (OmrEnded /\ args.input.content # <<>>) =>
           /\ args.input.path \in DOMAIN files
           /\ files[args.input.path] = args.input.content[1]

====
